---- MODULE Spec2Model ----
(***************************************************************************)
(* State-machine model of the SMS personal CRM: the receive_sms entry      *)
(* point of main.py with its per-sender conversation state, the contact    *)
(* extractor and first-write-wins merge of agents/text_parser.py, the      *)
(* interaction and query handlers it dispatches to, and the standalone     *)
(* contact-change and interaction handlers of agents/.                     *)
(*                                                                         *)
(* Python strings are tuples of one-character strings so that strip,       *)
(* upper, lower, startswith, replace, substring tests and the regular      *)
(* expressions of the code are computed rather than assumed.  Python       *)
(* dicts are functions whose DOMAIN is the set of keys present.            *)
(***************************************************************************)
EXTENDS Integers, Sequences, FiniteSets, TLC

\* ------------------------------------------------------------------------
\* Python values and string primitives
\* ------------------------------------------------------------------------

\* Python's None: a tuple that is no string of single characters.
None == <<"<None>">>

\* The empty dict {}.
EmptyDict == [k \in {} |-> None]

\* Python truthiness of a string-or-None value.
Truthy(v) == v # None /\ v # <<>>

\* dict.get(key) with the default None.
dict_get(d, k) == IF k \in DOMAIN d THEN d[k] ELSE None

UpperChars == <<"A","B","C","D","E","F","G","H","I","J","K","L","M","N","O","P","Q","R","S","T","U","V","W","X","Y","Z">>

LowerChars == <<"a","b","c","d","e","f","g","h","i","j","k","l","m","n","o","p","q","r","s","t","u","v","w","x","y","z">>

DigitChars == <<"0","1","2","3","4","5","6","7","8","9">>

Range(f) == {f[i] : i \in DOMAIN f}

IsSpace(c) == c \in {" ", "\n", "\t"}

IsDigit(c) == c \in Range(DigitChars)

IsAlpha(c) == c \in Range(UpperChars) \cup Range(LowerChars)

\* \w of Python's re for the ASCII characters used here.
IsWordChar(c) == IsAlpha(c) \/ IsDigit(c) \/ c = "_"

char_lower(c) ==
    IF c \in Range(UpperChars)
    THEN LowerChars[CHOOSE i \in 1..26 : UpperChars[i] = c]
    ELSE c

char_upper(c) ==
    IF c \in Range(LowerChars)
    THEN UpperChars[CHOOSE i \in 1..26 : LowerChars[i] = c]
    ELSE c

\* str.lower()
lower(s) == [i \in 1..Len(s) |-> char_lower(s[i])]

\* str.upper()
upper(s) == [i \in 1..Len(s) |-> char_upper(s[i])]

SetMin(S) == CHOOSE x \in S : \A y \in S : x <= y

SetMax(S) == CHOOSE x \in S : \A y \in S : x >= y

\* str.strip()
strip(s) ==
    LET keep == {i \in 1..Len(s) : ~IsSpace(s[i])}
    IN  IF keep = {} THEN <<>> ELSE SubSeq(s, SetMin(keep), SetMax(keep))

\* str.startswith(prefix)
startswith(s, p) == Len(s) >= Len(p) /\ SubSeq(s, 1, Len(p)) = p

\* s[i:i+len(p)] == p
MatchAt(s, p, i) == i >= 1 /\ i + Len(p) - 1 <= Len(s) /\ SubSeq(s, i, i + Len(p) - 1) = p

\* Python's `p in s` for strings.
str_contains(s, p) == \E i \in 1..(Len(s) + 1) : MatchAt(s, p, i)

\* str.replace(old, ""): every non-overlapping occurrence, left to right.
RECURSIVE str_remove(_, _)
str_remove(s, old) ==
    IF Len(s) < Len(old) \/ Len(s) = 0 THEN s
    ELSE IF MatchAt(s, old, 1)
         THEN str_remove(SubSeq(s, Len(old) + 1, Len(s)), old)
         ELSE <<s[1]>> \o str_remove(Tail(s), old)

\* re.search(r"\b<pat>\b", s) for a literal pat that starts and ends with
\* a word character.
re_search_word(pat, s) ==
    \E i \in 1..Len(s) :
        /\ MatchAt(s, pat, i)
        /\ (i = 1 \/ ~IsWordChar(s[i - 1]))
        /\ (i + Len(pat) > Len(s) \/ ~IsWordChar(s[i + Len(pat)]))

\* ------------------------------------------------------------------------
\* Inputs: senders, message bodies, oracle answers
\* ------------------------------------------------------------------------

\* Number of turns (handler invocations) explored from the initial state.
MaxTurns == 3

Senders == {"+15550001"}

L_query == <<"q","u","e","r","y">>

L_interaction == <<"i","n","t","e","r","a","c","t","i","o","n">>

L_contact == <<"c","o","n","t","a","c","t">>

L_noquery == <<"n","o","q","u","e","r","y">>

B_yes == <<" ","Y","e","s">>

B_y == <<"y">>

B_no == <<"N","O">>

B_n == <<"n"," ">>

B_fix_query == <<"F","I","X",":","Q","U","E","R","Y">>

B_fix_contact == <<"f","i","x",":","c","o","n","t","a","c","t">>

B_fix_interaction == <<"F","i","x",":"," ","I","n","t","e","r","a","c","t","i","o","n">>

B_fix_typo == <<"F","I","X",":","C","O","N","T","A","K","T">>

B_spoke == <<"S","p","o","k","e"," ","w","i","t","h"," ","J","o","n"," ","r","e"," ","g","o","l","f">>

B_show == <<"s","h","o","w"," ","m","e"," ","c","h","a","t","s"," ","w","i","t","h"," ","J","o","n">>

B_plain == <<"A","n","n"," ","R","o","e"," ","5","5","5","-","1","2","3","-","4","5","6","7">>

B_scenario_d == <<"S","h","o","w"," ","m","e"," ","t","h","e"," ","l","a","s","t"," ","3"," ","t","i","m","e","s"," ","I"," ","s","p","o","k","e"," ","w","i","t","h"," ","X","a","n","d","e","r">>

B_scenario_d_chats == <<"S","h","o","w"," ","m","e"," ","t","h","e"," ","l","a","s","t"," ","3"," ","c","h","a","t","s"," ","w","i","t","h"," ","X","a","n","d","e","r">>

\* The SMS bodies a turn may carry.
Bodies ==
    { B_yes, B_y, B_no, B_n, B_fix_query, B_fix_contact, B_fix_interaction,
      B_fix_typo, B_spoke, B_show, B_plain }

\* message = Body.strip(), for every body.
Messages == {strip(b) : b \in Bodies}

\* The bodies of end-to-end scenario D: the request, the same request
\* worded without "spoke with", and the overrides a user may answer with.
ScenarioBodies == {B_scenario_d, B_scenario_d_chats, B_fix_query, B_fix_interaction}

ScenarioMessages == {strip(b) : b \in ScenarioBodies}

AllMessages == Messages \cup ScenarioMessages

\* An oracle answer as the caller sees it.  kind "error": the call raised or
\* the content is not JSON; kind "array": the content decodes to a non-empty
\* JSON array (valid JSON, not an object); kind "object": the content
\* decodes to the JSON object `json`.
OracleError == [kind |-> "error", json |-> EmptyDict]

OracleArray == [kind |-> "array", json |-> EmptyDict]

OracleObject(d) == [kind |-> "object", json |-> d]

\* Answers of the binary classifier oracle.
ClassifierAnswers ==
    { OracleError, OracleObject([label |-> L_query]),
      OracleObject([label |-> L_noquery]) }

\* ------------------------------------------------------------------------
\* main.py: classification helpers
\* ------------------------------------------------------------------------

\* main.py uses json.loads but its imports (lines 3-23) do not bind `json`:
\* the call raises NameError, which the bare except of classify_for_query
\* swallows.
main_imports_json == FALSE

\* classify_for_query with json bound: the decoded label decides.
classify_for_query_json_bound(resp) ==
    IF resp.kind # "object" THEN FALSE
    ELSE lower(IF "label" \in DOMAIN resp.json THEN resp.json["label"] ELSE L_noquery)
            = L_query

\* The openai call sits in the outer try (any failure returns False); the
\* decoded data stays {} when json.loads raises inside the inner bare except.
classify_for_query(resp) ==
    IF resp.kind = "error" THEN FALSE
    ELSE LET data  == IF main_imports_json /\ resp.kind = "object"
                      THEN resp.json ELSE EmptyDict
             label == IF "label" \in DOMAIN data THEN data["label"] ELSE L_noquery
         IN  lower(label) = L_query

query_phrases ==
    { <<"w","h","a","t">>, <<"t","e","l","l"," ","m","e">>, <<"s","h","o","w"," ","m","e">>, <<"w","h","o"," ","d","i","d"," ","i"," ","s","p","e","a","k"," ","w","i","t","h">>,
      <<"d","i","s","c","u","s","s","i","o","n">>, <<"d","i","s","c","u","s","s","i","o","n","s">>, <<"w","h","o"," ","d","i","d"," ","i"," ","t","a","l","k"," ","t","o">>,
      <<"w","h","o"," ","d","i","d"," ","i"," ","m","e","e","t">>, <<"m","y"," ","l","a","s","t"," ","d","i","s","c","u","s","s","i","o","n">>, <<"m","y"," ","l","a","s","t"," ","i","n","t","e","r","a","c","t","i","o","n">>,
      <<"n","o"," ","r","e","s","u","l","t","s"," ","f","r","o","m"," ","q","u","e","r","i","e">>, <<"n","o"," ","r","e","s","u","l","t","s"," ","f","r","o","m"," ","q","u","e","r","i","e","s">> }

fallback_query_keywords_tbl ==
    [m \in AllMessages |->
        \E pattern \in query_phrases : re_search_word(pattern, lower(m))]

\* The keyword fallback switched off.
fallback_query_keywords_off(message) == FALSE

\* for pattern in query_phrases: if re.search(pattern, low): return True
fallback_query_keywords(message) == fallback_query_keywords_tbl[message]

interaction_phrases ==
    { <<"h","a","d"," ","a"," ","c","h","a","t"," ","w","i","t","h">>, <<"c","a","l","l"," ","w","i","t","h">>, <<"s","p","o","k","e"," ","w","i","t","h">>, <<"s","p","o","k","e"," ","t","o">>,
      <<"m","e","t"," ","w","i","t","h">>, <<"h","a","d"," ","c","o","f","f","e","e"," ","w","i","t","h">>, <<"h","a","d"," ","l","u","n","c","h"," ","w","i","t","h">>,
      <<"h","a","d"," ","a"," ","c","a","l","l"," ","w","i","t","h">> }

is_interaction_tbl ==
    [m \in AllMessages |->
        \E p \in interaction_phrases : str_contains(lower(m), p)]

\* The cue phrases looked for in the message as typed, without lower().
is_interaction_case_sensitive(message) ==
    \E p \in interaction_phrases : str_contains(message, p)

\* lower_msg = message.lower(); any(p in lower_msg for p in interaction_phrases)
is_interaction(message) == is_interaction_tbl[message]

\* fix_prefix = message.upper().strip()
fix_prefix(message) == strip(upper(message))

\* fix_prefix.startswith("FIX:")
is_fix_tbl == [m \in AllMessages |-> startswith(fix_prefix(m), <<"F","I","X",":">>)]

is_fix(message) == is_fix_tbl[message]

\* corrected_label = fix_prefix.replace("FIX:", "").strip().lower()
corrected_label_tbl ==
    [m \in AllMessages |-> lower(strip(str_remove(fix_prefix(m), <<"F","I","X",":">>)))]

corrected_label(message) == corrected_label_tbl[message]

\* message.lower() in ["yes", "y"]
is_affirmative_tbl == [m \in AllMessages |-> lower(m) \in { <<"y","e","s">>, <<"y">> }]

is_affirmative(message) == is_affirmative_tbl[message]

\* message.lower() in ["no", "n"]
is_negative_tbl == [m \in AllMessages |-> lower(m) \in { <<"n","o">>, <<"n">> }]

is_negative(message) == is_negative_tbl[message]

\* ------------------------------------------------------------------------
\* agents/text_parser.py: contact extraction, normalisation, merge
\* ------------------------------------------------------------------------

\* The six contact fields, in the order of required_fields.
ContactFields == <<"name", "phone", "email", "birthday", "family_members", "description">>

N_jon_lee == <<"J","o","n"," ","L","e","e">>

N_jonathan_lee == <<"J","o","n","a","t","h","a","n"," ","L","e","e">>

N_ann_roe == <<"A","n","n"," ","R","o","e">>

V_phone_raw == <<"5","5","5","-","1","2","3","-","4","5","6","7">>

V_email == <<"a","n","n","@","x",".","c","o">>

V_birthday_raw == <<"A","p","r","i","l"," ","2"," ","1","9","9","0">>

V_birthday_iso == <<"1","9","9","0","-","0","4","-","0","2">>

V_family == <<"n","o","n","e">>

V_description == <<"A","c","m","e">>

\* Answers of the contact-extraction oracle (parse_contact_message): a failed
\* call, a JSON array, and objects carrying some of the six fields.
ExtractorAnswers ==
    { OracleError,
      OracleArray,
      OracleObject([name |-> N_jon_lee]),
      OracleObject([name |-> N_ann_roe, email |-> None]),
      OracleObject([phone |-> V_phone_raw, email |-> V_email]),
      OracleObject([birthday |-> V_birthday_raw, family_members |-> V_family,
                    description |-> V_description]),
      OracleObject([name |-> N_ann_roe, phone |-> V_phone_raw, email |-> V_email,
                    birthday |-> V_birthday_iso, family_members |-> V_family,
                    description |-> V_description]) }

V_birthday_unparseable == <<"s","o","o","n">>

V_phone_short == <<"1","2","3","4","5">>

\* Further answers of the extraction oracle, given to the functions of
\* text_parser.py directly: a birthday that is no date, a phone number that is
\* too short, a birthday in words.
MoreExtractorAnswers ==
    { OracleObject([name |-> N_ann_roe, birthday |-> V_birthday_unparseable]),
      OracleObject([name |-> N_ann_roe, phone |-> V_phone_short]),
      OracleObject([name |-> N_jonathan_lee, birthday |-> V_birthday_raw]) }

AllExtractorAnswers == ExtractorAnswers \cup MoreExtractorAnswers

\* re.sub(r'\D', '', phone)
digits_of(phone) == SelectSeq(phone, IsDigit)

format_phone_number(phone) ==
    IF ~Truthy(phone) THEN None
    ELSE LET digits == digits_of(phone)
         IN  IF Len(digits) = 10 THEN <<"+","1">> \o digits
             ELSE IF Len(digits) = 11 /\ startswith(digits, <<"1">>) THEN <<"+">> \o digits
             ELSE IF Len(digits) > 11 THEN <<"+">> \o digits
             ELSE None

\* dateutil's parser followed by strftime("%Y-%m-%d"), on the birthday
\* strings the extractor answers carry; None stands for a raised exception.
date_parser_parse(raw) ==
    IF raw \in {V_birthday_raw, V_birthday_iso} THEN V_birthday_iso ELSE None

\* parse_contact_message: {} when the call or the JSON decoding fails, else
\* whatever json.loads returned.
parse_contact_message(answer) ==
    IF answer.kind = "error" THEN OracleObject(EmptyDict) ELSE answer

\* prepare_contact_for_supabase.  raised: parsed_data.get on a JSON array
\* raises AttributeError, which nothing in text_parser.py catches.
prepare_contact_for_supabase_raw(answer) ==
    LET parsed == parse_contact_message(answer)
        d0     == parsed.json
        d1     == IF Truthy(dict_get(d0, "phone"))
                  THEN [d0 EXCEPT !["phone"] = format_phone_number(d0["phone"])]
                  ELSE d0
        d2     == IF Truthy(dict_get(d1, "birthday"))
                     /\ date_parser_parse(d1["birthday"]) # None
                  THEN [d1 EXCEPT !["birthday"] = date_parser_parse(d1["birthday"])]
                  ELSE d1
        d3     == [k \in DOMAIN d2 \cup Range(ContactFields) |->
                      IF k \in DOMAIN d2 THEN d2[k] ELSE None]
    IN  IF parsed.kind = "array" THEN [raised |-> TRUE, data |-> EmptyDict]
        ELSE IF DOMAIN d0 = {} THEN [raised |-> FALSE, data |-> EmptyDict]
        ELSE [raised |-> FALSE, data |-> d3]

prepare_contact_for_supabase_tbl ==
    [a \in AllExtractorAnswers |-> prepare_contact_for_supabase_raw(a)]

prepare_contact_for_supabase(answer) == prepare_contact_for_supabase_tbl[answer]

\* The merge taking every truthy new value: the last write wins.
merge_overwriting(contact_record, new_data) ==
    [k \in DOMAIN contact_record \cup {x \in DOMAIN new_data : Truthy(new_data[x])} |->
        IF k \in DOMAIN new_data /\ Truthy(new_data[k])
        THEN new_data[k] ELSE contact_record[k]]

\* A merge that appends every truthy new value to the value already held.
merge_appending(contact_record, new_data) ==
    [k \in DOMAIN contact_record \cup {x \in DOMAIN new_data : Truthy(new_data[x])} |->
        IF k \in DOMAIN new_data /\ Truthy(new_data[k])
        THEN (IF Truthy(dict_get(contact_record, k)) THEN contact_record[k] ELSE <<>>)
                 \o new_data[k]
        ELSE contact_record[k]]

\* The merge loop of parse_message (lines 147-150): a new value is taken
\* only when it is truthy and the record holds no truthy value for the key.
merge_first_write_wins(contact_record, new_data) ==
    LET taken == {k \in DOMAIN new_data :
                     Truthy(new_data[k]) /\ ~Truthy(dict_get(contact_record, k))}
    IN  [k \in DOMAIN contact_record \cup taken |->
            IF k \in taken THEN new_data[k] ELSE contact_record[k]]

\* missing = the required fields with no truthy value, in required order.
missing_fields(contact_record) ==
    SelectSeq(ContactFields, LAMBDA f : ~Truthy(dict_get(contact_record, f)))

Reply(kind, list, record) == [kind |-> kind, list |-> list, record |-> record]

\* parse_message as written with a completeness check on follow-up turns.
parse_message_checking_followups(answer, existing_data) ==
    LET prepared       == prepare_contact_for_supabase(answer)
        contact_record == merge_first_write_wins(existing_data, prepared.data)
        missing        == missing_fields(contact_record)
    IN  IF prepared.raised
        THEN [raised |-> TRUE, status |-> "raised", contact_data |-> EmptyDict,
              message |-> Reply("none", <<>>, EmptyDict)]
        ELSE IF missing # <<>>
        THEN [raised |-> FALSE, status |-> "missing_fields",
              contact_data |-> contact_record,
              message |-> Reply("missing_information", missing, EmptyDict)]
        ELSE [raised |-> FALSE, status |-> "needs_confirmation",
              contact_data |-> contact_record,
              message |-> Reply("please_confirm", <<>>, contact_record)]

parse_message(answer, existing_data) ==
    LET prepared       == prepare_contact_for_supabase(answer)
        contact_record == merge_first_write_wins(existing_data, prepared.data)
        missing        == missing_fields(contact_record)
    IN  IF prepared.raised
        THEN [raised |-> TRUE, status |-> "raised", contact_data |-> EmptyDict,
              message |-> Reply("none", <<>>, EmptyDict)]
        ELSE IF DOMAIN existing_data # {}
        THEN [raised |-> FALSE, status |-> "needs_confirmation",
              contact_data |-> contact_record,
              message |-> Reply("please_confirm", <<>>, contact_record)]
        ELSE IF missing # <<>>
        THEN [raised |-> FALSE, status |-> "missing_fields",
              contact_data |-> contact_record,
              message |-> Reply("missing_information", missing, EmptyDict)]
        ELSE [raised |-> FALSE, status |-> "needs_confirmation",
              contact_data |-> contact_record,
              message |-> Reply("please_confirm", <<>>, contact_record)]

\* ------------------------------------------------------------------------
\* The store: tables contacts, interactions, classification_outcomes
\* ------------------------------------------------------------------------

\* One call issued against the store by a handler.
StoreCall(table, op, id, data) == [table |-> table, op |-> op, id |-> id, data |-> data]

\* A write against contacts or interactions.
IsMutation(call) ==
    call.table \in {"contacts", "interactions"} /\ call.op \in {"insert", "update", "delete"}

\* .ilike("name", f"%{name}%"): case-insensitive substring match on a
\* non-null name column.
ilike_name(row, name) ==
    /\ "name" \in DOMAIN row
    /\ row["name"] # None
    /\ str_contains(lower(row["name"]), lower(name))

\* supabase.table("contacts").select("*").ilike("name", ...).execute().data
select_contacts_ilike(table, name) == SelectSeq(table, LAMBDA row : ilike_name(row, name))

\* The row the store creates for an inserted contact.
contact_row(uuid, data) ==
    [k \in DOMAIN data \cup {"uuid"} |-> IF k = "uuid" THEN uuid ELSE data[k]]

names_of(rows) == [i \in 1..Len(rows) |-> dict_get(rows[i], "name")]

\* ------------------------------------------------------------------------
\* agents/interactions_agent.py (the handler receive_sms dispatches to)
\* ------------------------------------------------------------------------

F_jon == <<"j","o","n">>

F_xander == <<"X","a","n","d","e","r">>

\* Answers of the name-extraction oracle.
NameAnswers ==
    { OracleError, OracleObject([name |-> F_jon]),
      OracleObject([name |-> N_jonathan_lee]), OracleObject([name |-> F_xander]) }

\* parse_interaction_name: the whole body is in a try that returns "".
parse_interaction_name(answer) ==
    IF answer.kind # "object" THEN <<>>
    ELSE IF "name" \in DOMAIN answer.json THEN answer.json["name"] ELSE <<>>

fuzzy_search_contacts(table, name) == select_contacts_ilike(table, name)

\* handle_interaction_message with auto-creation of a minimal contact on
\* zero matches (the policy of agents/interaction_agent.py).
handle_interaction_message_autocreate(message, answer, store_ok, table, log, uuid) ==
    LET extracted_name == parse_interaction_name(answer)
        matches        == fuzzy_search_contacts(table, extracted_name)
        new_contact    == contact_row(uuid, [name |-> extracted_name])
        contact_id     == IF matches = <<>> THEN uuid ELSE matches[1]["uuid"]
        data           == [contact_id |-> contact_id, note |-> message]
        search         == StoreCall("contacts", "select", 0, [name |-> extracted_name])
        base           == [fragment |-> extracted_name, matches |-> matches,
                           contacts |-> table, interactions |-> log, uuid_seq |-> uuid,
                           calls |-> <<>>, reply |-> Reply("no_name", <<>>, EmptyDict)]
    IN  IF ~Truthy(extracted_name) THEN [base EXCEPT !.matches = <<>>]
        ELSE IF Len(matches) > 1
        THEN [base EXCEPT !.calls = <<search>>,
                          !.reply = Reply("multiple_contacts", names_of(matches), EmptyDict)]
        ELSE [base EXCEPT
                !.calls = <<search>> \o (IF matches = <<>>
                           THEN <<StoreCall("contacts", "insert", 0, [name |-> extracted_name])>>
                           ELSE <<>>)
                          \o <<StoreCall("interactions", "insert", 0, data)>>,
                !.contacts = IF matches = <<>> THEN Append(table, new_contact) ELSE table,
                !.uuid_seq = IF matches = <<>> THEN uuid + 1 ELSE uuid,
                !.interactions = IF store_ok THEN Append(log, data) ELSE log,
                !.reply = IF store_ok
                          THEN Reply("interaction_saved", <<extracted_name>>, EmptyDict)
                          ELSE Reply("error_saving_interaction", <<>>, EmptyDict)]

\* store_ok: whether insert_interaction succeeds; a failure comes back as
\* {"error": ...} (supabase_client.py lines 25-31).
handle_interaction_message(message, answer, store_ok, table, log, uuid) ==
    LET extracted_name == parse_interaction_name(answer)
        matches        == fuzzy_search_contacts(table, extracted_name)
        data           == [contact_id |-> matches[1]["uuid"], note |-> message]
        search         == StoreCall("contacts", "select", 0, [name |-> extracted_name])
        base           == [fragment |-> extracted_name, matches |-> matches,
                           contacts |-> table, interactions |-> log, uuid_seq |-> uuid,
                           calls |-> <<search>>, reply |-> Reply("no_name", <<>>, EmptyDict)]
    IN  IF ~Truthy(extracted_name) THEN [base EXCEPT !.matches = <<>>, !.calls = <<>>]
        ELSE IF Len(matches) = 1
        THEN [base EXCEPT
                !.calls = <<search, StoreCall("interactions", "insert", 0, data)>>,
                !.interactions = IF store_ok THEN Append(log, data) ELSE log,
                !.reply = IF store_ok
                          THEN Reply("interaction_saved", <<matches[1]["name"]>>, EmptyDict)
                          ELSE Reply("error_saving_interaction", <<>>, EmptyDict)]
        ELSE IF Len(matches) > 1
        THEN [base EXCEPT !.reply = Reply("multiple_contacts", names_of(matches), EmptyDict)]
        ELSE [base EXCEPT !.reply = Reply("no_matching_contact", <<>>, EmptyDict)]

\* ------------------------------------------------------------------------
\* agents/query_request_generator.py and agents/interaction_query.py
\* ------------------------------------------------------------------------

\* Optional[int]: Python's None or an int.
IntNone == [is_none |-> TRUE, val |-> 0]

IntVal(n) == [is_none |-> FALSE, val |-> n]

S_desc == <<"d","e","s","c">>

S_asc == <<"a","s","c">>

\* Answers of the query-planning oracle.  The objects carry no date range.
PlanAnswers ==
    { OracleError,
      OracleArray,
      OracleObject([contact_name |-> F_xander]),
      OracleObject([contact_name |-> F_jon, limit |-> IntVal(1), sort |-> S_desc]) }

\* Further answers of the planning oracle, given to parse_nl_query directly.
MorePlanAnswers ==
    { OracleObject(EmptyDict),
      OracleObject([contact_name |-> N_jon_lee]),
      OracleObject([limit |-> IntVal(5)]),
      OracleObject([limit |-> IntVal(2), sort |-> S_asc]),
      OracleObject([limit |-> IntVal(0)]),
      OracleObject([sort |-> S_asc]) }

AllPlanAnswers == PlanAnswers \cup MorePlanAnswers

Q_last_interaction == <<"m","y"," ","l","a","s","t"," ","i","n","t","e","r","a","c","t","i","o","n"," ","w","i","t","h"," ","J","o","n">>

Q_last_zero == <<"s","h","o","w"," ","m","e"," ","t","h","e"," ","l","a","s","t"," ","0"," ","c","h","a","t","s"," ","w","i","t","h"," ","J","o","n">>

Q_last_twelve == <<"L","a","s","t"," "," ","1","2"," ","n","o","t","e","s">>

Q_both == <<"l","a","s","t"," ","i","n","t","e","r","a","c","t","i","o","n"," ","o","r"," ","l","a","s","t"," ","2">>

Q_plural == <<"a","t"," ","l","a","s","t"," ","i","n","t","e","r","a","c","t","i","o","n","s">>

Q_none == <<"w","h","a","t"," ","d","i","d"," ","J","o","n"," ","s","a","y">>

\* Request texts given to parse_nl_query directly.
QueryTexts ==
    {B_scenario_d, Q_last_interaction, Q_last_zero, Q_last_twelve, Q_both, Q_plural, Q_none}

\* Last index of the run of characters satisfying P that starts at j
\* (j - 1 when s[j] does not satisfy P).
RunEnd(s, j, P(_)) ==
    SetMax({k \in (j - 1)..Len(s) : \A t \in j..k : P(s[t])})

\* int() of a string of decimal digits.
RECURSIVE int_of(_)
int_of(ds) ==
    IF ds = <<>> THEN 0
    ELSE 10 * int_of(SubSeq(ds, 1, Len(ds) - 1))
         + (CHOOSE d \in 0..9 : DigitChars[d + 1] = ds[Len(ds)])

\* re.search(r"last\s+(\d+)", s): the start positions at which it matches.
last_num_starts(s) ==
    {i \in 1..Len(s) :
        /\ MatchAt(s, <<"l","a","s","t">>, i)
        /\ RunEnd(s, i + 4, IsSpace) >= i + 4
        /\ RunEnd(s, RunEnd(s, i + 4, IsSpace) + 1, IsDigit) > RunEnd(s, i + 4, IsSpace)}

\* group(1) of the leftmost match.
last_num_group(s) ==
    LET i  == SetMin(last_num_starts(s))
        sp == RunEnd(s, i + 4, IsSpace)
    IN  SubSeq(s, sp + 1, RunEnd(s, sp + 1, IsDigit))

\* End of the greedy group [A-Za-z]+(?:\s+[A-Za-z]+)* that starts at j.
RECURSIVE name_group_end(_, _)
name_group_end(s, j) ==
    LET e  == RunEnd(s, j, IsAlpha)
        sp == RunEnd(s, e + 1, IsSpace)
    IN  IF sp > e /\ RunEnd(s, sp + 1, IsAlpha) > sp
        THEN name_group_end(s, sp + 1)
        ELSE e

\* re.search(r"with\s+([A-Za-z]+(?:\s+[A-Za-z]+)*)", s, re.IGNORECASE)
with_name_starts(s) ==
    {i \in 1..Len(s) :
        /\ MatchAt(lower(s), <<"w","i","t","h">>, i)
        /\ RunEnd(s, i + 4, IsSpace) >= i + 4
        /\ RunEnd(s, RunEnd(s, i + 4, IsSpace) + 1, IsAlpha) > RunEnd(s, i + 4, IsSpace)}

with_name_group(s) ==
    LET i  == SetMin(with_name_starts(s))
        sp == RunEnd(s, i + 4, IsSpace)
    IN  SubSeq(s, sp + 1, name_group_end(s, sp + 1))

PlanKeysStr == {"contact_name", "start_date", "end_date", "sort"}

\* Lines 71-74: every plan key the oracle left out is set to None.
fill_plan_keys(given) ==
    [k \in PlanKeysStr \cup {"limit"} |->
        IF k \in DOMAIN given THEN given[k]
        ELSE IF k = "limit" THEN IntNone ELSE None]

\* The limit fallback setting the limit and leaving the sort order alone.
limit_fallback_keeping_sort(plan, low) ==
    IF ~plan["limit"].is_none THEN plan
    ELSE IF last_num_starts(low) # {}
    THEN [plan EXCEPT !["limit"] = IntVal(int_of(last_num_group(low)))]
    ELSE IF str_contains(low, <<"l","a","s","t"," ","i","n","t","e","r","a","c","t","i","o","n">>)
    THEN [plan EXCEPT !["limit"] = IntVal(1)]
    ELSE plan

\* Lines 80-91: the limit fallback, tried when the plan's limit is None.
limit_fallback(plan, low) ==
    IF ~plan["limit"].is_none THEN plan
    ELSE IF last_num_starts(low) # {}
    THEN [plan EXCEPT !["limit"] = IntVal(int_of(last_num_group(low))),
                      !["sort"] = S_desc]
    ELSE IF str_contains(low, <<"l","a","s","t"," ","i","n","t","e","r","a","c","t","i","o","n">>)
    THEN [plan EXCEPT !["limit"] = IntVal(1), !["sort"] = S_desc]
    ELSE plan

\* Lines 93-100: the contact_name fallback, tried when the plan names nobody.
name_fallback(plan, user_query) ==
    IF ~Truthy(plan["contact_name"]) /\ with_name_starts(user_query) # {}
    THEN [plan EXCEPT !["contact_name"] = strip(with_name_group(user_query))]
    ELSE plan

\* parse_nl_query.  raised: a JSON array passes `key not in plan` and then
\* fails on plan[key] = None with TypeError, outside the try.
parse_nl_query_raw(user_query, answer) ==
    IF answer.kind = "array" THEN [raised |-> TRUE, plan |-> EmptyDict]
    ELSE [raised |-> FALSE,
          plan |-> name_fallback(
                       limit_fallback(
                           fill_plan_keys(IF answer.kind = "object"
                                          THEN answer.json ELSE EmptyDict),
                           lower(user_query)),
                       user_query)]

parse_nl_query_tbl ==
    [q \in AllMessages \cup QueryTexts |->
        [a \in AllPlanAnswers |-> parse_nl_query_raw(q, a)]]

parse_nl_query(user_query, answer) == parse_nl_query_tbl[user_query][answer]

Reverse(seq) == [i \in 1..Len(seq) |-> seq[Len(seq) + 1 - i]]

FirstN(seq, n) == SubSeq(seq, 1, IF n < Len(seq) THEN n ELSE Len(seq))

\* Lines 48-61 of handle_interaction_query: the rows of the interactions
\* table (kept in created_at order) restricted to the resolved contacts when
\* the plan names one, ordered by plan["sort"], cut to plan["limit"] when
\* that is truthy.
query_interactions(plan, ids, log) ==
    LET filtered == IF Truthy(plan["contact_name"])
                    THEN SelectSeq(log, LAMBDA r : r.contact_id \in ids)
                    ELSE log
        ordered  == IF plan["sort"] = S_desc THEN Reverse(filtered) ELSE filtered
    IN  IF ~plan["limit"].is_none /\ plan["limit"].val # 0
        THEN FirstN(ordered, plan["limit"].val)
        ELSE ordered

\* The store calls of a query that got as far as the interactions table.
query_calls(name, rows) ==
    (IF Truthy(name)
     THEN <<StoreCall("contacts", "select", 0, [name |-> name])>> ELSE <<>>)
    \o <<StoreCall("interactions", "select", 0, EmptyDict)>>
    \o (IF rows # <<>> THEN <<StoreCall("contacts", "select", 0, EmptyDict)>> ELSE <<>>)

\* The query run on the interactions table even when the plan's name
\* resolves to no contact.
run_query_plan_ignoring_miss(plan, found, rows) ==
    [raised |-> FALSE, plan |-> plan,
     calls |-> query_calls(plan["contact_name"], rows),
     reply |-> Reply("query_results", rows, EmptyDict)]

\* Lines 36-85 of handle_interaction_query, given the plan and the contacts
\* the plan's name resolves to.  The summarising oracle only rewords the
\* rows; the reply keeps the rows themselves.
run_query_plan(plan, found, rows) ==
    IF Truthy(plan["contact_name"]) /\ found = <<>>
    THEN [raised |-> FALSE, plan |-> plan,
          calls |-> <<StoreCall("contacts", "select", 0,
                                [name |-> plan["contact_name"]])>>,
          reply |-> Reply("no_contacts_found", <<plan["contact_name"]>>, EmptyDict)]
    ELSE [raised |-> FALSE, plan |-> plan,
          calls |-> query_calls(plan["contact_name"], rows),
          reply |-> Reply("query_results", rows, EmptyDict)]

\* The uuids of the rows found.
uuids_of(found) == {found[i]["uuid"] : i \in 1..Len(found)}

handle_planned_query(parsed, table, log) ==
    IF parsed.raised
    THEN [raised |-> TRUE, plan |-> EmptyDict, calls |-> <<>>,
          reply |-> Reply("none", <<>>, EmptyDict)]
    ELSE run_query_plan(
             parsed.plan,
             select_contacts_ilike(table, parsed.plan["contact_name"]),
             query_interactions(
                 parsed.plan,
                 uuids_of(select_contacts_ilike(table, parsed.plan["contact_name"])),
                 log))

\* handle_interaction_query: plan, resolve the name, run the query.
handle_interaction_query(user_query, answer, table, log) ==
    handle_planned_query(parse_nl_query(user_query, answer), table, log)

\* ------------------------------------------------------------------------
\* supabase_client.py
\* ------------------------------------------------------------------------

\* insert_contact: the call, and the table after it (store_ok: whether the
\* insert succeeds; a failure is returned as {"error": ...}).
insert_contact_call(contact_data) == StoreCall("contacts", "insert", 0, contact_data)

insert_contact(table, uuid, contact_data, store_ok) ==
    IF store_ok THEN Append(table, contact_row(uuid, contact_data)) ELSE table

\* store_classification_outcome: one insert into classification_outcomes;
\* a failure is printed and swallowed.
store_classification_outcome(audit, message, original_label, correct_label, store_ok) ==
    IF store_ok
    THEN Append(audit, [message |-> message, original_label |-> original_label,
                        correct_label |-> correct_label])
    ELSE audit

audit_call(message, original_label, correct_label) ==
    StoreCall("classification_outcomes", "insert", 0,
              [message |-> message, original_label |-> original_label,
               correct_label |-> correct_label])

\* get_classification_examples(limit=5), issued by build_few_shot_prompt.
examples_call == StoreCall("classification_outcomes", "select", 0, EmptyDict)

\* build_few_shot_prompt: get_classification_examples(limit=5)
FewShotLimit == 5

\* .neq(column, value): the rows whose column differs from the value given.
\* The value is a literal, also when it spells the name of another column.
neq(rows, column, value) == SelectSeq(rows, LAMBDA row : row[column] # value)

\* get_classification_examples: the rows of classification_outcomes (kept
\* in created_at order) that pass .neq("original_label", "correct_label"),
\* newest first, cut to `limit`; [] when the call fails.
get_classification_examples(audit, limit, store_ok) ==
    IF ~store_ok THEN <<>>
    ELSE FirstN(Reverse(neq(audit, "original_label", <<"c","o","r","r","e","c","t","_","l","a","b","e","l">>)), limit)

\* ------------------------------------------------------------------------
\* State
\* ------------------------------------------------------------------------

VARIABLES
    contact_storage,         \* main.py: sender -> {"contact_data", "state"}
    classification_storage,  \* main.py: sender -> {"original_label", "original_message"}
    contacts,                \* table contacts, in insertion order
    interactions,            \* table interactions, in created_at order
    classification_outcomes, \* table classification_outcomes, in insertion order
    uuid_seq,                \* next identifier the store assigns to a contact
    last,                    \* what the most recent handler invocation did
    turns,                   \* number of handler invocations so far
    inflight                 \* invocations in flight: position and local variables

vars == <<contact_storage, classification_storage, contacts, interactions,
          classification_outcomes, uuid_seq, last, turns, inflight>>

dict_set(d, k, v) == [x \in DOMAIN d \cup {k} |-> IF x = k THEN v ELSE d[x]]

dict_del(d, k) == [x \in DOMAIN d \ {k} |-> d[x]]

NoTurn ==
    [op |-> "none", sender |-> "", message |-> <<>>, branch |-> "none",
     oracle |-> "none", handler |-> "none", text |-> <<>>, calls |-> <<>>,
     reply |-> Reply("none", <<>>, EmptyDict), escaped |-> FALSE,
     fragment |-> <<>>, matches |-> <<>>, plan |-> EmptyDict,
     pre_contact_storage |-> EmptyDict, pre_classification_storage |-> EmptyDict,
     pre_contacts |-> <<>>]

InitialContacts ==
    << contact_row(1, [name |-> N_jon_lee]), contact_row(2, [name |-> N_jonathan_lee]) >>

Init ==
    /\ contact_storage = EmptyDict
    /\ classification_storage = EmptyDict
    /\ contacts = InitialContacts
    /\ interactions = <<>>
    /\ classification_outcomes = <<>>
    /\ uuid_seq = 3
    /\ last = NoTurn
    /\ turns = 0
    /\ inflight = <<>>

\* The record of one receive_sms turn.
SmsTurn(sender, message, branch) ==
    [NoTurn EXCEPT !.op = "receive_sms", !.sender = sender, !.message = message,
                   !.branch = branch,
                   !.pre_contact_storage = contact_storage,
                   !.pre_classification_storage = classification_storage]

\* ------------------------------------------------------------------------
\* main.py: receive_sms
\* ------------------------------------------------------------------------

\* The phase computed with the two outcomes swapped.
new_state_swapped(parse_result) ==
    IF parse_result.status = "needs_confirmation"
    THEN "awaiting_fields" ELSE "awaiting_confirmation"

\* new_state = "awaiting_confirmation" if status == "needs_confirmation"
\*             else "awaiting_fields"
new_state(parse_result) ==
    IF parse_result.status = "needs_confirmation"
    THEN "awaiting_confirmation" ELSE "awaiting_fields"

\* contact_storage[sender] = {"contact_data": ..., "state": new_state}
store_parse_result(storage, sender, parse_result) ==
    dict_set(storage, sender,
             [contact_data |-> parse_result.contact_data, state |-> new_state(parse_result)])

\* One remembered classification shared by every sender.
remember_shared(storage, sender, label, message) ==
    [s \in DOMAIN storage \cup {sender} |->
        [original_label |-> label, original_message |-> message]]

remember(storage, sender, label, message) ==
    dict_set(storage, sender, [original_label |-> label, original_message |-> message])

\* Truthiness of contact_storage.get(sender): present and not the empty dict.
has_state_entry(storage, sender) ==
    sender \in DOMAIN storage /\ DOMAIN storage[sender] # {}

ClosedLabels == {L_query, L_interaction, L_contact}

\* Lines 125-174, outside the try of the handler.
ReceiveSmsFix(sender, message) ==
    /\ is_fix(message)
    /\ LET corrected == corrected_label(message)
           t0        == SmsTurn(sender, message, "fix")
       IN  IF sender \notin DOMAIN classification_storage
           THEN /\ last' = [t0 EXCEPT !.reply =
                               Reply("no_previous_classification", <<>>, EmptyDict)]
                /\ UNCHANGED <<contact_storage, classification_storage, contacts,
                               interactions, classification_outcomes, uuid_seq>>
           ELSE
             LET original_label == classification_storage[sender].original_label
                 original_text  == classification_storage[sender].original_message
                 audit          == <<audit_call(original_text, original_label, corrected)>>
             IN  \E audit_ok \in BOOLEAN :
                 /\ classification_outcomes' =
                        store_classification_outcome(classification_outcomes,
                            original_text, original_label, corrected, audit_ok)
                 /\ \/ /\ corrected = L_query
                       /\ \E plan \in PlanAnswers :
                            \E r \in {handle_interaction_query(original_text, plan,
                                                              contacts, interactions)} :
                                /\ classification_storage' =
                                       IF r.raised THEN classification_storage
                                       ELSE dict_del(classification_storage, sender)
                                /\ last' = [t0 EXCEPT
                                       !.handler = "handle_interaction_query",
                                       !.text = original_text,
                                       !.calls = audit \o r.calls, !.plan = r.plan,
                                       !.reply = r.reply, !.escaped = r.raised]
                                /\ UNCHANGED <<contact_storage, contacts, interactions,
                                               uuid_seq>>
                    \/ /\ corrected = L_interaction
                       /\ \E answer \in NameAnswers, store_ok \in BOOLEAN :
                            \E r \in {handle_interaction_message(original_text, answer,
                                        store_ok, contacts, interactions, uuid_seq)} :
                                /\ classification_storage' =
                                       dict_del(classification_storage, sender)
                                /\ contacts' = r.contacts
                                /\ interactions' = r.interactions
                                /\ uuid_seq' = r.uuid_seq
                                /\ last' = [t0 EXCEPT
                                       !.handler = "handle_interaction_message",
                                       !.text = original_text,
                                       !.calls = audit \o r.calls,
                                       !.reply = r.reply,
                                       !.fragment = r.fragment, !.matches = r.matches]
                                /\ UNCHANGED contact_storage
                    \/ /\ corrected = L_contact
                       /\ \E answer \in ExtractorAnswers :
                            \E r \in {parse_message(answer, EmptyDict)} :
                                /\ contact_storage' =
                                       IF r.raised
                                       THEN dict_set(contact_storage, sender, EmptyDict)
                                       ELSE store_parse_result(contact_storage, sender, r)
                                /\ classification_storage' =
                                       IF r.raised THEN classification_storage
                                       ELSE dict_del(classification_storage, sender)
                                /\ last' = [t0 EXCEPT
                                       !.handler = "parse_message",
                                       !.text = original_text,
                                       !.calls = audit,
                                       !.reply = r.message, !.escaped = r.raised]
                                /\ UNCHANGED <<contacts, interactions, uuid_seq>>
                    \/ /\ corrected \notin ClosedLabels
                       /\ classification_storage' =
                              dict_del(classification_storage, sender)
                       /\ last' = [t0 EXCEPT
                              !.calls = audit,
                              !.reply = Reply("unknown_fix_type", <<>>, EmptyDict)]
                       /\ UNCHANGED <<contact_storage, contacts, interactions, uuid_seq>>

\* Lines 189-198: an interaction cue phrase decides the label.
ReceiveSmsInteraction(sender, message) ==
    /\ ~is_fix(message)
    /\ is_interaction(message)
    /\ \E answer \in NameAnswers, store_ok \in BOOLEAN :
         \E r \in {handle_interaction_message(message, answer, store_ok,
                                             contacts, interactions, uuid_seq)} :
             /\ classification_storage' =
                    remember(classification_storage, sender, L_interaction, message)
             /\ contacts' = r.contacts
             /\ interactions' = r.interactions
             /\ uuid_seq' = r.uuid_seq
             /\ last' = [SmsTurn(sender, message, "interaction") EXCEPT
                    !.handler = "handle_interaction_message", !.text = message,
                    !.calls = r.calls, !.reply = r.reply,
                    !.fragment = r.fragment, !.matches = r.matches]
             /\ UNCHANGED <<contact_storage, classification_outcomes>>

\* Lines 214 and 276-290: the query handler inside the try.
ReceiveSmsQuery(sender, message, oracle) ==
    \E plan \in PlanAnswers :
        \E r \in {handle_interaction_query(message, plan, contacts, interactions)} :
            /\ classification_storage' =
                   remember(classification_storage, sender, L_query, message)
            /\ last' = [SmsTurn(sender, message, "query") EXCEPT
                   !.oracle = oracle,
                   !.handler = "handle_interaction_query", !.text = message,
                   !.calls = <<examples_call>> \o r.calls, !.plan = r.plan,
                   !.reply = IF r.raised THEN Reply("sorry_error", <<>>, EmptyDict)
                             ELSE r.reply]
            /\ UNCHANGED <<contact_storage, contacts, interactions,
                           classification_outcomes, uuid_seq>>

\* What the extraction oracle is asked about a message: a bare yes/no token
\* carries no contact details, so the oracle fails or names someone.
ExtractorAnswersFor(message) ==
    IF is_affirmative(message) \/ is_negative(message)
    THEN {OracleError, OracleObject([name |-> N_jon_lee])}
    ELSE ExtractorAnswers

\* Lines 234-245 and 247-258: extract, merge, store the new phase.
ReceiveSmsParse(sender, message, oracle, existing_data) ==
    \E answer \in ExtractorAnswersFor(message) :
        \E r \in {parse_message(answer, existing_data)} :
            /\ contact_storage' =
                   IF r.raised THEN contact_storage
                   ELSE store_parse_result(contact_storage, sender, r)
            /\ last' = [SmsTurn(sender, message, "contact") EXCEPT
                   !.oracle = oracle,
                   !.handler = "parse_message", !.text = message,
                   !.calls = <<examples_call>>,
                   !.reply = IF r.raised THEN Reply("sorry_error", <<>>, EmptyDict)
                             ELSE r.message]
            /\ UNCHANGED <<contacts, classification_outcomes, uuid_seq>>

\* The affirmative branch leaving the conversation state in place.
confirm_storage_kept(storage, sender) == storage

\* Line 225: del contact_storage[sender]
confirm_storage(storage, sender) == dict_del(storage, sender)

\* The negative branch leaving the conversation state in place.
cancel_storage_kept(storage, sender) == storage

\* Line 231: del contact_storage[sender]
cancel_storage(storage, sender) == dict_del(storage, sender)

\* Lines 216-258: the contact path.
ReceiveSmsContact(sender, message, oracle) ==
    /\ classification_storage' =
           remember(classification_storage, sender, L_contact, message)
    /\ interactions' = interactions
    /\ IF has_state_entry(contact_storage, sender)
          /\ contact_storage[sender].state = "awaiting_confirmation"
       THEN IF is_affirmative(message)
            THEN \E store_ok \in BOOLEAN :
                   LET contact_data == contact_storage[sender].contact_data
                   IN  /\ contacts' = insert_contact(contacts, uuid_seq, contact_data, store_ok)
                       /\ uuid_seq' = IF store_ok THEN uuid_seq + 1 ELSE uuid_seq
                       /\ contact_storage' = confirm_storage(contact_storage, sender)
                       /\ last' = [SmsTurn(sender, message, "contact") EXCEPT
                              !.oracle = oracle,
                              !.handler = "insert_contact", !.text = message,
                              !.calls = <<examples_call, insert_contact_call(contact_data)>>,
                              !.reply = IF store_ok
                                        THEN Reply("contact_saved", <<>>, EmptyDict)
                                        ELSE Reply("error_saving_contact", <<>>, EmptyDict)]
                       /\ UNCHANGED classification_outcomes
            ELSE IF is_negative(message)
            THEN /\ contact_storage' = cancel_storage(contact_storage, sender)
                 /\ last' = [SmsTurn(sender, message, "contact") EXCEPT
                        !.oracle = oracle,
                        !.handler = "cancel", !.text = message,
                        !.calls = <<examples_call>>,
                        !.reply = Reply("contact_cancelled", <<>>, EmptyDict)]
                 /\ UNCHANGED <<contacts, classification_outcomes, uuid_seq>>
            ELSE ReceiveSmsParse(sender, message, oracle,
                                 contact_storage[sender].contact_data)
       ELSE ReceiveSmsParse(sender, message, oracle,
                            IF has_state_entry(contact_storage, sender)
                            THEN contact_storage[sender].contact_data
                            ELSE EmptyDict)

\* Lines 200-258: no cue phrase; the binary classifier and the keyword
\* fallback choose between the query handler and the contact path.
ReceiveSmsClassified(sender, message) ==
    /\ ~is_fix(message)
    /\ ~is_interaction(message)
    /\ \E resp \in ClassifierAnswers :
         LET oracle == IF resp.kind # "object" THEN "error"
                       ELSE IF resp.json["label"] = L_query THEN "query" ELSE "noquery"
             gpt_says_query == classify_for_query(resp) \/ fallback_query_keywords(message)
         IN  IF gpt_says_query
             THEN ReceiveSmsQuery(sender, message, oracle)
             ELSE ReceiveSmsContact(sender, message, oracle)

\* One more handler invocation within the explored horizon, run from its
\* first statement to its return with no other invocation in flight.
Turn == turns < MaxTurns /\ turns' = turns + 1 /\ UNCHANGED inflight

\* One inbound SMS of a sender among `senders` with a body among
\* `messages`, handled to completion.
ReceiveSmsFrom(senders, messages) ==
    \E sender \in senders, message \in messages :
        \/ Turn /\ ReceiveSmsFix(sender, message)
        \/ Turn /\ ReceiveSmsInteraction(sender, message)
        \/ Turn /\ ReceiveSmsClassified(sender, message)

ReceiveSmsAmong(messages) == ReceiveSmsFrom(Senders, messages)

ReceiveSms == ReceiveSmsAmong(Messages)

Next == ReceiveSms

Spec == Init /\ [][Next]_vars

\* Scenario D: the conversation restricted to the scenario's messages.
NextScenarioD == ReceiveSmsAmong(ScenarioMessages)

SpecScenarioD == Init /\ [][NextScenarioD]_vars

\* Two senders in conversation with the same server process.
TwoSenders == Senders \cup {"+15550002"}

\* What each of them sends: a message of the contact path (extracted from
\* with no conversation open, a confirmation with one awaiting it), a cue
\* phrase, a query keyword and a correction.
SenderMessages == {strip(b) : b \in {B_y, B_spoke, B_show, B_fix_contact}}

NextSenders == ReceiveSmsFrom(TwoSenders, SenderMessages)

SpecSenders == Init /\ [][NextSenders]_vars

\* ------------------------------------------------------------------------
\* agents/interaction_agent.py: handle_interaction
\* ------------------------------------------------------------------------

V_note == <<"g","o","l","f">>

\* Answers of the oracle of parse_interaction_info.
InfoAnswers ==
    { OracleError,
      OracleObject([contact_name |-> F_jon, note |-> V_note]),
      OracleObject([contact_name |-> N_jonathan_lee, note |-> V_note]),
      OracleObject([contact_name |-> <<" ","X","a","n","d","e","r"," ">>, note |-> V_note]),
      OracleObject([contact_name |-> F_jon]) }

\* parse_interaction_info: {} on any failure (bare except), else both keys
\* with "" as the default.
parse_interaction_info(answer) ==
    IF answer.kind # "object" THEN EmptyDict
    ELSE [k \in {"contact_name", "note"} |->
             IF k \in DOMAIN answer.json THEN answer.json[k] ELSE <<>>]

dict_get_str(d, k) == IF k \in DOMAIN d THEN d[k] ELSE <<>>

\* contact_ok, store_ok: whether the insert into contacts and the insert
\* into interactions succeed; neither call is inside a try, so a failure
\* raises out of the handler.
handle_interaction(answer, contact_ok, store_ok, table, log, uuid) ==
    LET data         == parse_interaction_info(answer)
        contact_name == strip(dict_get_str(data, "contact_name"))
        note         == strip(dict_get_str(data, "note"))
        existing     == select_contacts_ilike(table, contact_name)
        search       == StoreCall("contacts", "select", 0, [name |-> contact_name])
        create       == StoreCall("contacts", "insert", 0, [name |-> contact_name])
        contact_id   == IF existing = <<>> THEN uuid ELSE existing[1]["uuid"]
        row          == [contact_id |-> contact_id, note |-> note]
        insert       == StoreCall("interactions", "insert", 0, row)
        base         == [fragment |-> contact_name, matches |-> <<>>, contacts |-> table,
                         interactions |-> log, uuid_seq |-> uuid, calls |-> <<>>,
                         raised |-> FALSE, reply |-> Reply("no_name", <<>>, EmptyDict)]
    IN  IF ~Truthy(contact_name) THEN base
        ELSE IF ~Truthy(note) THEN [base EXCEPT !.reply = Reply("no_note", <<>>, EmptyDict)]
        ELSE IF existing = <<>>
        THEN IF ~contact_ok
             THEN [base EXCEPT !.calls = <<search, create>>, !.raised = TRUE,
                               !.reply = Reply("none", <<>>, EmptyDict)]
             ELSE [base EXCEPT
                     !.calls = <<search, create, insert>>,
                     !.contacts = Append(table, contact_row(uuid, [name |-> contact_name])),
                     !.uuid_seq = uuid + 1,
                     !.interactions = IF store_ok THEN Append(log, row) ELSE log,
                     !.raised = ~store_ok,
                     !.reply = IF store_ok
                               THEN Reply("logged_interaction", <<contact_name>>, EmptyDict)
                               ELSE Reply("none", <<>>, EmptyDict)]
        ELSE IF Len(existing) > 1
        THEN [base EXCEPT !.matches = existing, !.calls = <<search>>,
                          !.reply = Reply("multiple_contacts", names_of(existing), EmptyDict)]
        ELSE [base EXCEPT
                !.matches = existing,
                !.calls = <<search, insert>>,
                !.interactions = IF store_ok THEN Append(log, row) ELSE log,
                !.raised = ~store_ok,
                !.reply = IF store_ok
                          THEN Reply("logged_interaction", <<contact_name>>, EmptyDict)
                          ELSE Reply("none", <<>>, EmptyDict)]

\* ------------------------------------------------------------------------
\* agents/contacts_change_agent.py: handle_contacts_change
\* ------------------------------------------------------------------------

ChangeKeys == {"action", "name", "phone", "email", "birthday", "family_members", "description"}

\* Answers of the oracle of parse_contact_info.
ChangeAnswers ==
    { OracleError,
      OracleObject([action |-> <<"m","e","r","g","e">>, name |-> F_jon]),
      OracleObject([action |-> <<"D","e","l","e","t","e">>, name |-> F_jon]),
      OracleObject([action |-> <<"d","e","l","e","t","e">>, name |-> N_jonathan_lee]),
      OracleObject([action |-> <<"d","e","l","e","t","e">>, name |-> F_xander]),
      OracleObject([action |-> <<"d","e","l","e","t","e">>]),
      OracleObject([action |-> <<"u","p","d","a","t","e">>, name |-> F_jon, phone |-> V_phone_raw]),
      OracleObject([action |-> <<"u","p","d","a","t","e">>, name |-> <<"j","o","n","a","t","h","a","n">>, email |-> V_email]),
      OracleObject([action |-> <<"u","p","d","a","t","e">>, name |-> F_xander, phone |-> V_phone_raw]),
      OracleObject([action |-> <<"a","d","d">>, name |-> N_ann_roe, phone |-> V_phone_raw]),
      OracleObject([action |-> <<"a","d","d">>, email |-> V_email]) }

\* parse_contact_info: {} on any failure (bare except), else the seven keys
\* with "" as the default.
parse_contact_info(answer) ==
    IF answer.kind # "object" THEN EmptyDict
    ELSE [k \in ChangeKeys |-> IF k \in DOMAIN answer.json THEN answer.json[k] ELSE <<>>]

\* .update(contact_record).eq("uuid", id): the named columns of that row.
update_row(table, id, contact_record) ==
    [i \in 1..Len(table) |->
        IF table[i]["uuid"] = id
        THEN [k \in DOMAIN table[i] \cup DOMAIN contact_record |->
                 IF k \in DOMAIN contact_record THEN contact_record[k] ELSE table[i][k]]
        ELSE table[i]]

\* A delete without the .eq("uuid", id) filter: every row goes.
delete_row_unfiltered(table, id) == <<>>

\* .delete().eq("uuid", id)
delete_row(table, id) == SelectSeq(table, LAMBDA row : row["uuid"] # id)

\* The ambiguity test switched off: the first match is acted on.
multiple_matches_ignored(existing) == FALSE

\* if len(existing) > 1 (the delete path and the update path)
multiple_matches(existing) == Len(existing) > 1

\* store_ok: whether the insert, update or delete succeeds; the call is not
\* inside a try, so a failure raises out of the handler.
handle_contacts_change(answer, store_ok, table, uuid) ==
    LET contact_data   == parse_contact_info(answer)
        action         == lower(dict_get_str(contact_data, "action"))
        name           == strip(dict_get_str(contact_data, "name"))
        existing       == select_contacts_ilike(table, name)
        search         == StoreCall("contacts", "select", 0, [name |-> name])
        filled         == {f \in Range(ContactFields) :
                              Truthy(strip(dict_get_str(contact_data, f)))}
        contact_record == [f \in filled |-> strip(contact_data[f])]
        base           == [action |-> action, fragment |-> name, matches |-> <<>>,
                           contacts |-> table,
                           uuid_seq |-> uuid, calls |-> <<>>, raised |-> FALSE,
                           reply |-> Reply("unsure_action", <<>>, EmptyDict)]
        failed         == [base EXCEPT !.raised = TRUE, !.reply = Reply("none", <<>>, EmptyDict)]
    IN  IF action \notin { <<"a","d","d">>, <<"u","p","d","a","t","e">>, <<"d","e","l","e","t","e">> } THEN base
        ELSE IF action = <<"d","e","l","e","t","e">>
        THEN IF ~Truthy(name)
             THEN [base EXCEPT !.reply = Reply("no_name_to_delete", <<>>, EmptyDict)]
             ELSE IF existing = <<>>
             THEN [base EXCEPT !.calls = <<search>>,
                               !.reply = Reply("no_contacts_found", <<name>>, EmptyDict)]
             ELSE IF multiple_matches(existing)
             THEN [base EXCEPT !.matches = existing, !.calls = <<search>>,
                               !.reply = Reply("multiple_contacts", names_of(existing), EmptyDict)]
             ELSE LET call == StoreCall("contacts", "delete", existing[1]["uuid"], EmptyDict)
                  IN  IF ~store_ok
                      THEN [failed EXCEPT !.matches = existing, !.calls = <<search, call>>]
                      ELSE [base EXCEPT
                              !.matches = existing, !.calls = <<search, call>>,
                              !.contacts = delete_row(table, existing[1]["uuid"]),
                              !.reply = Reply("contact_deleted", <<existing[1]["name"]>>, EmptyDict)]
        ELSE IF action = <<"a","d","d">>
        THEN IF ~Truthy(dict_get(contact_record, "name"))
             THEN [base EXCEPT !.reply = Reply("no_name_to_add", <<>>, EmptyDict)]
             ELSE LET call == StoreCall("contacts", "insert", 0, contact_record)
                  IN  IF ~store_ok
                      THEN [failed EXCEPT !.calls = <<call>>]
                      ELSE [base EXCEPT
                              !.calls = <<call>>,
                              !.contacts = Append(table, contact_row(uuid, contact_record)),
                              !.uuid_seq = uuid + 1,
                              !.reply = Reply("contact_added", <<contact_record["name"]>>, EmptyDict)]
        ELSE IF ~Truthy(name)
             THEN [base EXCEPT !.reply = Reply("no_name_to_update", <<>>, EmptyDict)]
             ELSE IF existing = <<>>
             THEN [base EXCEPT !.calls = <<search>>,
                               !.reply = Reply("no_contacts_found", <<name>>, EmptyDict)]
             ELSE IF multiple_matches(existing)
             THEN [base EXCEPT !.matches = existing, !.calls = <<search>>,
                               !.reply = Reply("multiple_contacts", names_of(existing), EmptyDict)]
             ELSE LET call == StoreCall("contacts", "update", existing[1]["uuid"], contact_record)
                  IN  IF ~store_ok
                      THEN [failed EXCEPT !.matches = existing, !.calls = <<search, call>>]
                      ELSE [base EXCEPT
                              !.matches = existing, !.calls = <<search, call>>,
                              !.contacts = update_row(table, existing[1]["uuid"], contact_record),
                              !.reply = Reply("contact_updated", <<existing[1]["name"]>>, EmptyDict)]

\* ------------------------------------------------------------------------
\* The handlers of agents/ invoked directly
\* ------------------------------------------------------------------------

AgentTurn(op) ==
    [NoTurn EXCEPT !.op = op, !.pre_contacts = contacts]

HandleContactsChange ==
    /\ Turn
    /\ \E answer \in ChangeAnswers, store_ok \in BOOLEAN :
         \E r \in {handle_contacts_change(answer, store_ok, contacts, uuid_seq)} :
             /\ contacts' = r.contacts
             /\ uuid_seq' = r.uuid_seq
             /\ last' = [AgentTurn("handle_contacts_change") EXCEPT
                    !.text = r.action,
                    !.fragment = r.fragment, !.matches = r.matches,
                    !.calls = r.calls, !.reply = r.reply, !.escaped = r.raised]
             /\ UNCHANGED <<contact_storage, classification_storage, interactions,
                            classification_outcomes>>

HandleInteraction ==
    /\ Turn
    /\ \E answer \in InfoAnswers, contact_ok \in BOOLEAN, store_ok \in BOOLEAN :
         \E r \in {handle_interaction(answer, contact_ok, store_ok, contacts,
                                       interactions, uuid_seq)} :
             /\ contacts' = r.contacts
             /\ interactions' = r.interactions
             /\ uuid_seq' = r.uuid_seq
             /\ last' = [AgentTurn("handle_interaction") EXCEPT
                    !.fragment = r.fragment, !.matches = r.matches,
                    !.calls = r.calls, !.reply = r.reply, !.escaped = r.raised]
             /\ UNCHANGED <<contact_storage, classification_storage,
                            classification_outcomes>>

HandleInteractionMessage ==
    /\ Turn
    /\ \E message \in {strip(B_spoke), strip(B_plain)}, answer \in NameAnswers,
          store_ok \in BOOLEAN :
         \E r \in {handle_interaction_message(message, answer, store_ok, contacts,
                                               interactions, uuid_seq)} :
             /\ contacts' = r.contacts
             /\ interactions' = r.interactions
             /\ uuid_seq' = r.uuid_seq
             /\ last' = [AgentTurn("handle_interaction_message") EXCEPT
                    !.message = message, !.text = message,
                    !.fragment = r.fragment, !.matches = r.matches,
                    !.calls = r.calls, !.reply = r.reply]
             /\ UNCHANGED <<contact_storage, classification_storage,
                            classification_outcomes>>

\* Requests given to handle_interaction_query directly.
AgentQueries == {strip(B_scenario_d), Q_last_zero, Q_none}

HandleInteractionQuery ==
    /\ Turn
    /\ \E user_query \in AgentQueries, answer \in AllPlanAnswers :
         \E r \in {handle_interaction_query(user_query, answer, contacts, interactions)} :
             /\ last' = [AgentTurn("handle_interaction_query") EXCEPT
                    !.message = user_query, !.text = user_query,
                    !.plan = r.plan, !.calls = r.calls,
                    !.reply = r.reply, !.escaped = r.raised]
             /\ UNCHANGED <<contact_storage, classification_storage, contacts,
                            interactions, classification_outcomes, uuid_seq>>

NextAgents ==
    \/ HandleContactsChange
    \/ HandleInteraction
    \/ HandleInteractionMessage
    \/ HandleInteractionQuery

SpecAgents == Init /\ [][NextAgents]_vars

\* ------------------------------------------------------------------------
\* agents/interaction_agent.py: handle_interaction, several invocations at
\* once.  Each request to the store is one step; what an invocation holds
\* between two requests is its local state.
\* ------------------------------------------------------------------------

MaxInvocations == 2

Invocations == 1..MaxInvocations

\* An invocation that has not started: its locals are unassigned.
InteractionIdle ==
    [pc |-> "idle", contact_name |-> <<>>, note |-> <<>>, existing |-> <<>>,
     contact_id |-> 0, created |-> FALSE,
     reply |-> Reply("none", <<>>, EmptyDict), raised |-> FALSE]

InitInteractions ==
    /\ contact_storage = EmptyDict
    /\ classification_storage = EmptyDict
    /\ contacts = InitialContacts
    /\ interactions = <<>>
    /\ classification_outcomes = <<>>
    /\ uuid_seq = 3
    /\ last = NoTurn
    /\ turns = 0
    /\ inflight = [p \in Invocations |-> InteractionIdle]

InteractionFrame == <<contact_storage, classification_storage,
                      classification_outcomes, last, turns>>

\* Line 37 with no row written: the identifier is handed out, the contact is not stored.
insert_new_contact_skipped(table, uuid, contact_name) == table

\* Line 37: supabase.table("contacts").insert({"name": contact_name}).execute().data
insert_new_contact(table, uuid, contact_name) ==
    Append(table, contact_row(uuid, [name |-> contact_name]))

\* Lines 22-32: parse, return early without a name or a note, else search.
InteractionSelect(p) ==
    /\ inflight[p].pc = "idle"
    /\ \E answer \in InfoAnswers :
         LET data         == parse_interaction_info(answer)
             contact_name == strip(dict_get_str(data, "contact_name"))
             note         == strip(dict_get_str(data, "note"))
         IN  inflight' = [inflight EXCEPT ![p] =
                 IF ~Truthy(contact_name)
                 THEN [@ EXCEPT !.pc = "done",
                                !.reply = Reply("no_name", <<>>, EmptyDict)]
                 ELSE IF ~Truthy(note)
                 THEN [@ EXCEPT !.pc = "done", !.contact_name = contact_name,
                                !.reply = Reply("no_note", <<>>, EmptyDict)]
                 ELSE [@ EXCEPT !.pc = "selected", !.contact_name = contact_name,
                                !.note = note,
                                !.existing = select_contacts_ilike(contacts, contact_name)]]
    /\ UNCHANGED <<contacts, interactions, uuid_seq>>
    /\ UNCHANGED InteractionFrame

\* Lines 34-45: on what the search returned, create the contact, ask which
\* contact is meant, or take the single match.
InteractionResolve(p) ==
    /\ inflight[p].pc = "selected"
    /\ IF inflight[p].existing = <<>>
       THEN \E contact_ok \in BOOLEAN :
              IF contact_ok
              THEN /\ contacts' = insert_new_contact(contacts, uuid_seq,
                                                     inflight[p].contact_name)
                   /\ uuid_seq' = uuid_seq + 1
                   /\ inflight' = [inflight EXCEPT ![p].pc = "resolved",
                                                   ![p].contact_id = uuid_seq,
                                                   ![p].created = TRUE]
              ELSE /\ inflight' = [inflight EXCEPT ![p].pc = "done",
                                                   ![p].raised = TRUE]
                   /\ UNCHANGED <<contacts, uuid_seq>>
       ELSE /\ inflight' = [inflight EXCEPT ![p] =
                   IF Len(inflight[p].existing) > 1
                   THEN [@ EXCEPT !.pc = "done",
                                  !.reply = Reply("multiple_contacts",
                                                  names_of(inflight[p].existing), EmptyDict)]
                   ELSE [@ EXCEPT !.pc = "resolved",
                                  !.contact_id = inflight[p].existing[1]["uuid"]]]
            /\ UNCHANGED <<contacts, uuid_seq>>
    /\ UNCHANGED interactions
    /\ UNCHANGED InteractionFrame

\* Lines 48-53: insert the interaction for the resolved contact and reply.
InteractionInsert(p) ==
    /\ inflight[p].pc = "resolved"
    /\ \E store_ok \in BOOLEAN :
         /\ interactions' =
                IF store_ok
                THEN Append(interactions, [contact_id |-> inflight[p].contact_id,
                                           note |-> inflight[p].note])
                ELSE interactions
         /\ inflight' = [inflight EXCEPT ![p] =
                [@ EXCEPT !.pc = "done", !.raised = ~store_ok,
                          !.reply = IF store_ok
                                    THEN Reply("logged_interaction",
                                               <<inflight[p].contact_name>>, EmptyDict)
                                    ELSE Reply("none", <<>>, EmptyDict)]]
    /\ UNCHANGED <<contacts, uuid_seq>>
    /\ UNCHANGED InteractionFrame

NextInteractions ==
    \E p \in Invocations :
        \/ InteractionSelect(p)
        \/ InteractionResolve(p)
        \/ InteractionInsert(p)

SpecInteractions == InitInteractions /\ [][NextInteractions]_vars

\* ------------------------------------------------------------------------
\* main.py: receive_sms, several requests of one sender at once.  The
\* handler is a coroutine of the application's event loop: the read of the
\* sender's state (221), the merge (234/248) and the write-back (241-244,
\* 254-257) are separate steps of a request.
\* ------------------------------------------------------------------------

MaxRequests == 2

Requests == 1..MaxRequests

\* Messages that reach the extract-and-merge code of the contact path:
\* no FIX: prefix, no cue phrase, no query keyword, no yes/no token.
DetailMessages ==
    {m \in Messages : /\ ~is_fix(m) /\ ~is_interaction(m)
                      /\ ~fallback_query_keywords(m)
                      /\ ~is_affirmative(m) /\ ~is_negative(m)}

\* A request the server has accepted and not yet started to handle.
RequestQueued ==
    [pc |-> "queued", sender |-> "", message |-> <<>>, state_entry |-> EmptyDict,
     parse_result |-> parse_message(OracleError, EmptyDict), order |-> 0]

InitRequests ==
    /\ contact_storage = EmptyDict
    /\ classification_storage = EmptyDict
    /\ contacts = InitialContacts
    /\ interactions = <<>>
    /\ classification_outcomes = <<>>
    /\ uuid_seq = 3
    /\ last = NoTurn
    /\ turns = 0
    /\ inflight = [p \in Requests |-> RequestQueued]

\* The handler suspended at every statement, as when each request runs on
\* a thread of its own.
receive_sms_awaits_everywhere(pc) == TRUE

\* Lines 120-290: the body of `async def receive_sms` holds no await, so
\* the coroutine is suspended at none of its positions.
receive_sms_awaits(pc) == FALSE

\* The event loop resumes a coroutine only while every other one is
\* waiting to start, suspended at an await, or finished.
EventLoopRuns(p) ==
    \A q \in Requests \ {p} :
        \/ inflight[q].pc \in {"queued", "done"}
        \/ receive_sms_awaits(inflight[q].pc)

RequestFrame == <<contacts, interactions, classification_outcomes, uuid_seq, last>>

\* Lines 120-221: no cue phrase and no query verdict; remember the label
\* and read the sender's conversation state.
RequestRead(p) ==
    /\ inflight[p].pc = "queued"
    /\ EventLoopRuns(p)
    /\ \E sender \in Senders, message \in DetailMessages, resp \in ClassifierAnswers :
         /\ ~(classify_for_query(resp) \/ fallback_query_keywords(message))
         /\ classification_storage' =
                remember(classification_storage, sender, L_contact, message)
         /\ inflight' = [inflight EXCEPT ![p] =
                [@ EXCEPT !.pc = "read", !.sender = sender, !.message = message,
                          !.state_entry = IF sender \in DOMAIN contact_storage
                                          THEN contact_storage[sender]
                                          ELSE EmptyDict]]
    /\ UNCHANGED <<contact_storage, turns>>
    /\ UNCHANGED RequestFrame

\* Lines 233-234 and 247-248: extract and merge into the record that was read.
RequestMerge(p) ==
    /\ inflight[p].pc = "read"
    /\ EventLoopRuns(p)
    /\ \E answer \in ExtractorAnswersFor(inflight[p].message) :
         \E r \in {parse_message(answer,
                                  IF DOMAIN inflight[p].state_entry # {}
                                  THEN inflight[p].state_entry.contact_data
                                  ELSE EmptyDict)} :
             inflight' = [inflight EXCEPT ![p].pc = IF r.raised THEN "done" ELSE "merged",
                                          ![p].parse_result = r]
    /\ UNCHANGED <<contact_storage, classification_storage, turns>>
    /\ UNCHANGED RequestFrame

\* Lines 235-245 and 249-258: store the merged record and the new phase.
RequestWrite(p) ==
    /\ inflight[p].pc = "merged"
    /\ EventLoopRuns(p)
    /\ contact_storage' =
           store_parse_result(contact_storage, inflight[p].sender, inflight[p].parse_result)
    /\ turns' = turns + 1
    /\ inflight' = [inflight EXCEPT ![p].pc = "done", ![p].order = turns + 1]
    /\ UNCHANGED classification_storage
    /\ UNCHANGED RequestFrame

NextRequests ==
    \E p \in Requests :
        \/ RequestRead(p)
        \/ RequestMerge(p)
        \/ RequestWrite(p)

SpecRequests == InitRequests /\ [][NextRequests]_vars

\* ------------------------------------------------------------------------
\* The functions of text_parser.py and query_request_generator.py applied
\* to inputs drawn in the initial state
\* ------------------------------------------------------------------------

\* How many times parse_message is applied in a row to the same extraction.
MaxApplications == 2

\* Raw phone strings handed to format_phone_number.
PhoneInputs ==
    { V_phone_raw,
      <<"+","4","4"," ","2","0"," ","7","9","4","6"," ","0","9","5","8">>,
      <<"+","1"," ","(","5","5","5",")"," ","1","2","3","-","4","5","6","7">>,
      <<"1"," ","5","5","5"," ","1","2","3"," ","4","5","6","7">>,
      <<"0","0","4","4"," ","2","0"," ","7","9","4","6"," ","0","9","5","8">>,
      <<"+","5","5","5","1","2","3","4","5","6","7">>,
      <<"+","4","9"," ","3","0"," ","1","2","3","4">>,
      <<"4","4","2","0","7","9","4","6","0","9","5">>,
      <<"0","0","1","2","3","4","5","6","7","8">>,
      V_phone_short,
      <<"c","a","l","l"," ","m","e">>,
      <<>> }

\* Pending records handed to parse_message as existing_data.
PendingRecords ==
    { EmptyDict,
      [name |-> N_jon_lee],
      [name |-> N_jon_lee, phone |-> <<"+","1","5","5","5","0","0","0","9","9","9","9">>],
      [birthday |-> V_birthday_iso, description |-> <<"G","l","o","b","e","x">>] }

\* How many rows the audit table holds when get_classification_examples
\* reads it.
MaxAuditRows == 3

\* Rows store_classification_outcome writes: the remembered message and
\* label, and the label of the FIX: command, which may repeat the original
\* label or be none of the three.
AuditRows ==
    { [message |-> strip(B_plain), original_label |-> L_contact, correct_label |-> L_query],
      [message |-> strip(B_y), original_label |-> L_contact, correct_label |-> L_contact],
      [message |-> strip(B_show), original_label |-> L_query, correct_label |-> L_interaction],
      [message |-> strip(B_spoke), original_label |-> L_interaction,
       correct_label |-> <<"c","o","n","t","a","k","t">>] }

AuditTables == UNION {[1..n -> AuditRows] : n \in 0..MaxAuditRows}

\* The limits get_classification_examples is called with.
ExampleLimits == {1, 2, FewShotLimit}

NoContactData == [raised |-> FALSE, data |-> EmptyDict]

NoPlan == [raised |-> FALSE, plan |-> EmptyDict]

\* The record of one function application: the function, its arguments, how
\* many times it has been applied, and what it returned.  For parse_message,
\* `pending` is the record drawn at the start, `existing` the argument of the
\* latest application and `record` what that application returned.
FunctionInput(fn) ==
    [op |-> "input", fn |-> fn, applied |-> 0,
     phone |-> <<>>, result |-> None,
     answer |-> OracleError, pending |-> EmptyDict,
     existing |-> EmptyDict, record |-> EmptyDict,
     prepared |-> NoContactData, raised |-> FALSE,
     user_query |-> <<>>, parsed |-> NoPlan,
     limit |-> 0, store_ok |-> TRUE, examples |-> <<>>]

InitFunctionArguments ==
    \/ \E phone \in PhoneInputs :
          last = [FunctionInput("format_phone_number") EXCEPT !.phone = phone]
    \/ \E answer \in AllExtractorAnswers :
          last = [FunctionInput("prepare_contact_for_supabase") EXCEPT !.answer = answer]
    \/ \E answer \in AllExtractorAnswers, existing \in PendingRecords :
          last = [FunctionInput("parse_message") EXCEPT
                     !.answer = answer, !.pending = existing,
                     !.existing = existing, !.record = existing]
    \/ \E user_query \in QueryTexts, answer \in AllPlanAnswers :
          last = [FunctionInput("parse_nl_query") EXCEPT
                     !.user_query = user_query, !.answer = answer]

InitFunctions ==
    /\ contact_storage = EmptyDict
    /\ classification_storage = EmptyDict
    /\ contacts = InitialContacts
    /\ interactions = <<>>
    /\ uuid_seq = 3
    /\ turns = 0
    /\ inflight = <<>>
    /\ \/ /\ classification_outcomes \in AuditTables
          /\ \E limit \in ExampleLimits :
                last = [FunctionInput("get_classification_examples") EXCEPT
                           !.limit = limit]
       \/ /\ classification_outcomes = <<>>
          /\ InitFunctionArguments

FunctionState == <<contact_storage, classification_storage, contacts, interactions,
                   classification_outcomes, uuid_seq>>

ApplyFormatPhoneNumber ==
    /\ last.op = "input"
    /\ last.fn = "format_phone_number"
    /\ Turn
    /\ last' = [last EXCEPT !.op = "format_phone_number", !.applied = 1,
                            !.result = format_phone_number(last.phone)]
    /\ UNCHANGED FunctionState

ApplyPrepareContactForSupabase ==
    /\ last.op = "input"
    /\ last.fn = "prepare_contact_for_supabase"
    /\ Turn
    /\ last' = [last EXCEPT !.op = "prepare_contact_for_supabase", !.applied = 1,
                            !.prepared = prepare_contact_for_supabase(last.answer)]
    /\ UNCHANGED FunctionState

\* parse_message on the drawn extraction and pending record, then again on
\* the same extraction and the record the previous application returned.
ApplyParseMessage ==
    /\ last.fn = "parse_message"
    /\ last.applied < MaxApplications
    /\ ~last.raised
    /\ Turn
    /\ \E r \in {parse_message(last.answer, last.record)} :
          last' = [last EXCEPT !.op = "parse_message", !.applied = @ + 1,
                               !.existing = last.record,
                               !.record = r.contact_data,
                               !.raised = r.raised]
    /\ UNCHANGED FunctionState

ApplyGetClassificationExamples ==
    /\ last.op = "input"
    /\ last.fn = "get_classification_examples"
    /\ Turn
    /\ \E store_ok \in BOOLEAN :
          last' = [last EXCEPT !.op = "get_classification_examples", !.applied = 1,
                               !.store_ok = store_ok,
                               !.examples = get_classification_examples(
                                                classification_outcomes, last.limit,
                                                store_ok)]
    /\ UNCHANGED FunctionState

ApplyParseNlQuery ==
    /\ last.op = "input"
    /\ last.fn = "parse_nl_query"
    /\ Turn
    /\ last' = [last EXCEPT !.op = "parse_nl_query", !.applied = 1,
                            !.parsed = parse_nl_query(last.user_query, last.answer)]
    /\ UNCHANGED FunctionState

NextFunctions ==
    \/ ApplyFormatPhoneNumber
    \/ ApplyPrepareContactForSupabase
    \/ ApplyParseMessage
    \/ ApplyParseNlQuery
    \/ ApplyGetClassificationExamples

SpecFunctions == InitFunctions /\ [][NextFunctions]_vars

\* ------------------------------------------------------------------------
\* Properties of receive_sms, stated over the most recent turn
\* ------------------------------------------------------------------------

SmsTurnDone == last.op = "receive_sms"

\* The sender's conversation state before the turn, if any.
PreEntry == last.pre_contact_storage[last.sender]

PreHasEntry == SmsTurnDone /\ has_state_entry(last.pre_contact_storage, last.sender)

PreAwaitingConfirmation == PreHasEntry /\ PreEntry.state = "awaiting_confirmation"

PreRecord == IF PreHasEntry THEN PreEntry.contact_data ELSE EmptyDict

PostHasEntry == SmsTurnDone /\ has_state_entry(contact_storage, last.sender)

Mutations == SelectSeq(last.calls, IsMutation)

InsertContactCalls ==
    SelectSeq(last.calls, LAMBDA c : c.table = "contacts" /\ c.op = "insert")

AuditCalls ==
    SelectSeq(last.calls, LAMBDA c : c.table = "classification_outcomes" /\ c.op = "insert")

\* A turn of the contact path that ran the extractor and stored its result.
ParseTurnStored ==
    /\ SmsTurnDone
    /\ last.branch = "contact"
    /\ last.handler = "parse_message"
    /\ last.reply.kind # "sorry_error"

\* C1: a sender in awaiting_confirmation who sends "yes" or "y" (any case)
\* gets exactly one insert_contact call, carrying the pending record, and
\* the conversation state is removed, whatever the classifier oracle says.
C1_ConfirmCommitsOnce ==
    (PreAwaitingConfirmation /\ lower(last.message) \in { <<"y","e","s">>, <<"y">> }) =>
        /\ Len(InsertContactCalls) = 1
        /\ InsertContactCalls[1] = insert_contact_call(PreEntry.contact_data)
        /\ last.sender \notin DOMAIN contact_storage

\* The classifier answered "query" to a "yes" sent in awaiting_confirmation
\* and the insert was still issued (here with the store refusing it).
C1_Witness ==
    /\ PreAwaitingConfirmation
    /\ lower(last.message) = <<"y","e","s">>
    /\ last.oracle = "query"
    /\ Len(InsertContactCalls) = 1
    /\ last.reply.kind = "error_saving_contact"
    /\ last.sender \notin DOMAIN contact_storage

\* C2: a sender in awaiting_confirmation who sends "no" or "n" (any case)
\* causes no insert, update or delete against contacts or interactions, and
\* the conversation state is removed.
C2_CancelWritesNothing ==
    (PreAwaitingConfirmation /\ lower(last.message) \in { <<"n","o">>, <<"n">> }) =>
        /\ Mutations = <<>>
        /\ last.sender \notin DOMAIN contact_storage

\* A "no" sent in awaiting_confirmation while the classifier answered
\* "query": the turn was cancelled all the same.
C2_Witness ==
    /\ PreAwaitingConfirmation
    /\ lower(last.message) = <<"n","o">>
    /\ last.oracle = "query"
    /\ last.reply.kind = "contact_cancelled"
    /\ last.sender \notin DOMAIN contact_storage

\* C3 as stated: a contact-path turn taken from awaiting_fields or from no
\* prior state leaves the sender in awaiting_fields whenever a required
\* field is still absent, and enters awaiting_confirmation only when all six
\* are non-absent.
C3_Original ==
    (ParseTurnStored /\ ~PreAwaitingConfirmation) =>
        /\ PostHasEntry
        /\ (missing_fields(contact_storage[last.sender].contact_data) # <<>>
               => contact_storage[last.sender].state = "awaiting_fields")
        /\ (contact_storage[last.sender].state = "awaiting_confirmation"
               => missing_fields(contact_storage[last.sender].contact_data) = <<>>)

\* C3 amended: a contact-path turn taken with an empty pending record ends in
\* awaiting_confirmation exactly when all six required fields are non-absent
\* after the merge, and in awaiting_fields otherwise; a turn taken from
\* awaiting_fields with a non-empty pending record always ends in
\* awaiting_confirmation.
C3_FollowUpAlwaysConfirms ==
    (ParseTurnStored /\ ~PreAwaitingConfirmation) =>
        /\ PostHasEntry
        /\ IF DOMAIN PreRecord = {}
           THEN contact_storage[last.sender].state =
                    (IF missing_fields(contact_storage[last.sender].contact_data) = <<>>
                     THEN "awaiting_confirmation" ELSE "awaiting_fields")
           ELSE contact_storage[last.sender].state = "awaiting_confirmation"

\* A follow-up turn from awaiting_fields that ended in awaiting_confirmation
\* with required fields still absent.
C3_Witness ==
    /\ ParseTurnStored
    /\ PreHasEntry
    /\ PreEntry.state = "awaiting_fields"
    /\ PostHasEntry
    /\ contact_storage[last.sender].state = "awaiting_confirmation"
    /\ missing_fields(contact_storage[last.sender].contact_data) # <<>>
    /\ last.reply.kind = "please_confirm"

\* C4: the contact-path turn whose merge makes all six required fields
\* non-absent ends in awaiting_confirmation with a reply that carries the
\* full merged record.
C4_CompleteRecordAsksConfirmation ==
    (/\ ParseTurnStored
     /\ missing_fields(PreRecord) # <<>>
     /\ PostHasEntry
     /\ missing_fields(contact_storage[last.sender].contact_data) = <<>>) =>
        /\ contact_storage[last.sender].state = "awaiting_confirmation"
        /\ last.reply.kind = "please_confirm"
        /\ last.reply.record = contact_storage[last.sender].contact_data

\* A record collected over two turns: the earlier turn left fields absent,
\* this turn's merge filled the rest.
C4_Witness ==
    /\ ParseTurnStored
    /\ PreHasEntry
    /\ PreEntry.state = "awaiting_fields"
    /\ missing_fields(PreRecord) # <<>>
    /\ PostHasEntry
    /\ missing_fields(contact_storage[last.sender].contact_data) = <<>>
    /\ contact_storage[last.sender].state = "awaiting_confirmation"
    /\ last.reply.record = contact_storage[last.sender].contact_data

\* C5 as stated: between the creation of a conversation state and its
\* removal by confirm or cancel, a required field holding a non-absent value
\* never changes and never becomes absent, FIX: turns included.
C5_Original ==
    (PreHasEntry /\ last.handler \notin {"insert_contact", "cancel"}) =>
        /\ last.sender \in DOMAIN contact_storage
        /\ \A f \in Range(ContactFields) :
              Truthy(dict_get(PreRecord, f)) =>
                  /\ "contact_data" \in DOMAIN contact_storage[last.sender]
                  /\ dict_get(contact_storage[last.sender].contact_data, f) = PreRecord[f]

\* C6 as stated: every insert_contact call issued by receive_sms carries a
\* non-absent name.
C6_Original ==
    SmsTurnDone =>
        \A i \in 1..Len(InsertContactCalls) :
            Truthy(dict_get(InsertContactCalls[i].data, "name"))

\* A FIX: turn with one of the three labels, sent while a classification is
\* remembered for the sender.
ValidFixTurn ==
    /\ SmsTurnDone
    /\ last.branch = "fix"
    /\ last.sender \in DOMAIN last.pre_classification_storage
    /\ corrected_label(last.message) \in ClosedLabels

\* C7 as stated: a FIX: with a valid label and a remembered classification
\* appends exactly one audit record (original message, original label,
\* corrected label), dispatches the remembered message to the corrected
\* label's handler, and clears the remembered classification, so that the
\* next FIX: appends no audit record.
C7_Original ==
    /\ ValidFixTurn =>
          /\ AuditCalls =
                << audit_call(last.pre_classification_storage[last.sender].original_message,
                              last.pre_classification_storage[last.sender].original_label,
                              corrected_label(last.message)) >>
          /\ last.handler \in {"handle_interaction_query", "handle_interaction_message",
                               "parse_message"}
          /\ last.text = last.pre_classification_storage[last.sender].original_message
          /\ last.sender \notin DOMAIN classification_storage
    /\ (SmsTurnDone /\ last.branch = "fix"
          /\ last.sender \notin DOMAIN last.pre_classification_storage) =>
          AuditCalls = <<>>

\* C8 as stated: a FIX: whose label is outside the closed set gets an
\* explanatory reply, writes no audit record and changes neither the
\* remembered classification nor the conversation state.
C8_Original ==
    (SmsTurnDone /\ last.branch = "fix"
       /\ corrected_label(last.message) \notin ClosedLabels) =>
        /\ last.reply.kind \in {"unknown_fix_type", "no_previous_classification"}
        /\ AuditCalls = <<>>
        /\ classification_storage = last.pre_classification_storage
        /\ contact_storage = last.pre_contact_storage

\* ------------------------------------------------------------------------
\* Properties of name resolution
\* ------------------------------------------------------------------------

\* The handler looked the fragment up among the stored contacts.
LookupIssued ==
    \E i \in 1..Len(last.calls) :
        last.calls[i].table = "contacts" /\ last.calls[i].op = "select"

\* The stored contacts the logged fragment matches.
StoredMatches == select_contacts_ilike(last.pre_contacts, last.fragment)

\* An invocation of the update path, the delete path or an interaction
\* logging handler with a name fragment.
ResolvingTurn ==
    /\ \/ last.op = "handle_contacts_change" /\ last.text \in { <<"u","p","d","a","t","e">>, <<"d","e","l","e","t","e">> }
       \/ last.op \in {"handle_interaction", "handle_interaction_message"}
    /\ Truthy(last.fragment)

InteractionNoMatch ==
    /\ SmsTurnDone
    /\ last.handler = "handle_interaction_message"
    /\ Truthy(last.fragment)
    /\ last.matches = <<>>

\* C10 as stated: on an interaction message whose name matches no stored
\* contact, receive_sms inserts a minimal contact named by the fragment and
\* then an interaction linked to it.
C10_Original ==
    InteractionNoMatch =>
        /\ Len(Mutations) = 2
        /\ Mutations[1].table = "contacts" /\ Mutations[1].op = "insert"
        /\ Mutations[1].data = [name |-> last.fragment]
        /\ Mutations[2].table = "interactions" /\ Mutations[2].op = "insert"

\* C10 amended: on an interaction message whose name matches no stored
\* contact, receive_sms issues no insert against contacts or interactions
\* and replies that no matching contact was found.
C10_NoMatchLogsNothing ==
    InteractionNoMatch =>
        /\ Mutations = <<>>
        /\ last.reply.kind = "no_matching_contact"

\* "Spoke with ..." naming someone who is not stored: the reply asks for the
\* contact to be created first and nothing was written.
C10_Witness ==
    /\ InteractionNoMatch
    /\ last.branch = "interaction"
    /\ last.fragment = F_xander
    /\ last.reply.kind = "no_matching_contact"
    /\ Mutations = <<>>

\* ------------------------------------------------------------------------
\* Properties of handle_contacts_change
\* ------------------------------------------------------------------------

\* An invocation of the update path or the delete path with a name fragment.
ChangeByName ==
    /\ last.op = "handle_contacts_change"
    /\ last.text \in { <<"u","p","d","a","t","e">>, <<"d","e","l","e","t","e">> }
    /\ Truthy(last.fragment)

\* The stored contacts other than the one with this identifier.
OtherRows(table, id) == SelectSeq(table, LAMBDA row : row["uuid"] # id)

\* C11: an update or delete whose name fragment matches no stored contact
\* issues no insert, update or delete and replies that no contacts were
\* found; an update or delete is issued only when exactly one contact
\* matches, it carries that contact's identifier, and every other stored
\* contact is left as it was.
C11_NoMatchNoMutation ==
    ChangeByName =>
        /\ StoredMatches = <<>> =>
              /\ Mutations = <<>>
              /\ contacts = last.pre_contacts
              /\ ~last.escaped
              /\ last.reply.kind = "no_contacts_found"
        /\ Mutations # <<>> =>
              /\ Len(StoredMatches) = 1
              /\ Len(Mutations) = 1
              /\ Mutations[1].table = "contacts"
              /\ Mutations[1].op \in {"update", "delete"}
              /\ Mutations[1].id = StoredMatches[1]["uuid"]
              /\ OtherRows(contacts, Mutations[1].id)
                    = OtherRows(last.pre_contacts, Mutations[1].id)

\* An update naming Xander while two other contacts are stored: nothing
\* was written and the reply says that no contacts were found.
C11_Witness ==
    /\ ChangeByName
    /\ last.text = <<"u","p","d","a","t","e">>
    /\ last.fragment = F_xander
    /\ Len(last.pre_contacts) >= 2
    /\ StoredMatches = <<>>
    /\ LookupIssued
    /\ Mutations = <<>>
    /\ last.reply.kind = "no_contacts_found"

\* ------------------------------------------------------------------------
\* Properties of the classification made by receive_sms
\* ------------------------------------------------------------------------

\* The messages that, lower-cased, contain one of the interaction cue
\* phrases.
CuePhraseMessages ==
    {m \in AllMessages : \E p \in interaction_phrases : str_contains(lower(m), p)}

HasCuePhrase(message) == message \in CuePhraseMessages

\* A turn of receive_sms on a message that is not a FIX: override.
PlainTurn == SmsTurnDone /\ ~is_fix(last.message)

\* The classification remembered for the sender of the turn.
Remembered(label) ==
    /\ last.sender \in DOMAIN classification_storage
    /\ classification_storage[last.sender]
         = [original_label |-> label, original_message |-> last.message]

\* C12: every message that is not a FIX: override and contains an
\* interaction cue phrase is labelled interaction and handed to the
\* interaction handler in whatever phase the sender's conversation is,
\* without the classifier being consulted; the classification remembered
\* for the sender becomes (interaction, that message).
C12_CuePhraseForcesInteraction ==
    (PlainTurn /\ HasCuePhrase(last.message)) =>
        /\ last.branch = "interaction"
        /\ last.handler = "handle_interaction_message"
        /\ last.text = last.message
        /\ last.oracle = "none"
        /\ Remembered(L_interaction)
        /\ contact_storage = last.pre_contact_storage

\* "Spoke with Jon re golf" sent while the sender's contact is awaiting
\* confirmation: the interaction handler ran and the pending contact is
\* still awaiting confirmation.
C12_Witness ==
    /\ PreAwaitingConfirmation
    /\ last.message = strip(B_spoke)
    /\ HasCuePhrase(last.message)
    /\ last.handler = "handle_interaction_message"
    /\ Remembered(L_interaction)
    /\ contact_storage[last.sender].state = "awaiting_confirmation"

\* The messages that, lower-cased, match one of the query-indicating
\* patterns.
QueryPatternMessages ==
    {m \in AllMessages :
        \E pattern \in query_phrases : re_search_word(pattern, lower(m))}

MatchesQueryPattern(message) == message \in QueryPatternMessages

\* C13: a message that is not a FIX: override and has no interaction cue
\* phrase, for which the binary classifier answers "noquery" or fails but
\* which matches a query-indicating pattern, is labelled query and handed
\* to the interaction-query handler; the contact path does not run, so the
\* conversation state is untouched and nothing is written.
C13_KeywordFallbackForcesQuery ==
    ( /\ PlainTurn
      /\ ~HasCuePhrase(last.message)
      /\ last.oracle \in {"noquery", "error"}
      /\ MatchesQueryPattern(last.message) ) =>
        /\ last.branch = "query"
        /\ last.handler = "handle_interaction_query"
        /\ last.text = last.message
        /\ Remembered(L_query)
        /\ contact_storage = last.pre_contact_storage
        /\ Mutations = <<>>

\* "show me chats with Jon" with the classifier answering "noquery": the
\* query handler ran.
C13_Witness ==
    /\ PlainTurn
    /\ last.message = strip(B_show)
    /\ last.oracle = "noquery"
    /\ MatchesQueryPattern(last.message)
    /\ last.branch = "query"
    /\ last.handler = "handle_interaction_query"
    /\ Remembered(L_query)

\* ------------------------------------------------------------------------
\* Properties of the functions of text_parser.py
\* ------------------------------------------------------------------------

\* The phone rule as the specification words it.  Every character but the
\* digits and a leading plus sign is dropped first.
PhoneRuleKept(phone) ==
    (IF startswith(strip(phone), <<"+">>) THEN <<"+">> ELSE <<>>) \o digits_of(phone)

\* Then: a leading plus is kept as it is, a leading "00" becomes a plus, ten
\* digits get "+1", more than ten get a plus, anything else is absent.
PhoneRule(phone) ==
    LET kept == PhoneRuleKept(phone)
    IN  IF startswith(kept, <<"+">>) THEN kept
        ELSE IF startswith(kept, <<"0","0">>) THEN <<"+">> \o SubSeq(kept, 3, Len(kept))
        ELSE IF Len(kept) = 10 THEN <<"+","1">> \o kept
        ELSE IF Len(kept) > 10 THEN <<"+">> \o kept
        ELSE None

PhoneFormatted == last.op = "format_phone_number"

\* C14 as stated: format_phone_number returns what the phone rule gives, on
\* every input: a number with a leading plus is kept (without its
\* separators), a leading "00" is replaced by a plus, ten digits get "+1",
\* more than ten digits get a plus, and any other shape is absent.
C14_Original ==
    PhoneFormatted => last.result = PhoneRule(last.phone)

\* The extraction oracle answered with a birthday string.
BirthdayGiven ==
    /\ last.answer.kind = "object"
    /\ Truthy(dict_get(last.answer.json, "birthday"))

\* The birthday string the oracle gave cannot be parsed as a date.
BirthdayUnparseable ==
    BirthdayGiven /\ date_parser_parse(last.answer.json["birthday"]) = None

\* C15 as stated: prepare_contact_for_supabase never raises on a birthday
\* string; a parseable one comes out as YYYY-MM-DD and an unparseable one
\* comes out absent, so that parse_message never merges it into the
\* pending record.
C15_Original ==
    /\ (last.op = "prepare_contact_for_supabase" /\ BirthdayGiven) =>
          /\ ~last.prepared.raised
          /\ dict_get(last.prepared.data, "birthday")
                = date_parser_parse(last.answer.json["birthday"])
    /\ (last.op = "parse_message" /\ BirthdayUnparseable) =>
          dict_get(last.record, "birthday") = dict_get(last.existing, "birthday")

\* parse_message has been applied to the same extraction at least twice,
\* each time on the record the application before returned.
MergedAgain ==
    /\ last.op = "parse_message"
    /\ last.applied >= 2
    /\ ~last.raised

\* C16: merging the same extraction into a record a second time returns
\* the record the first merge returned, for every pending record and every
\* extraction.
C16_MergeIdempotent ==
    MergedAgain => last.record = last.existing

\* A pending record holding a name, merged twice with an extraction that
\* carries a phone number and an email address: the first merge added both
\* and the second changed nothing.
C16_Witness ==
    /\ MergedAgain
    /\ last.pending = [name |-> N_jon_lee]
    /\ Truthy(dict_get(last.answer.json, "phone"))
    /\ Truthy(dict_get(last.record, "phone"))
    /\ Truthy(dict_get(last.record, "email"))
    /\ last.record # last.pending
    /\ last.record = last.existing

\* ------------------------------------------------------------------------
\* Properties of parse_nl_query
\* ------------------------------------------------------------------------

\* parse_nl_query returned a plan.
PlanReturned == last.op = "parse_nl_query" /\ ~last.parsed.raised

\* What the planning oracle gave: its JSON object, or nothing on a failure.
OracleGiven == IF last.answer.kind = "object" THEN last.answer.json ELSE EmptyDict

OracleLimit == IF "limit" \in DOMAIN OracleGiven THEN OracleGiven["limit"] ELSE IntNone

OracleSort == dict_get(OracleGiven, "sort")

\* The limit the fallback reads out of each request text, worked out by
\* hand from the two patterns: "last N" first, then "last interaction".
ExpectedFallbackLimit ==
    { <<B_scenario_d, IntVal(3)>>,
      <<Q_last_interaction, IntVal(1)>>,
      <<Q_last_zero, IntVal(0)>>,
      <<Q_last_twelve, IntVal(12)>>,
      <<Q_both, IntVal(2)>>,
      <<Q_plural, IntVal(1)>>,
      <<Q_none, IntNone>> }

\* C17: when the oracle's plan has no limit, a request containing "last N"
\* gets limit N and sort desc, otherwise a request containing "last
\* interaction" gets limit 1 and sort desc, otherwise limit and sort stay as
\* the oracle gave them; when the oracle's plan has a limit, limit and sort
\* are returned as the oracle gave them.
C17_LimitFallback ==
    PlanReturned =>
        /\ ~OracleLimit.is_none =>
              /\ last.parsed.plan["limit"] = OracleLimit
              /\ last.parsed.plan["sort"] = OracleSort
        /\ OracleLimit.is_none =>
              /\ <<last.user_query, last.parsed.plan["limit"]>> \in ExpectedFallbackLimit
              /\ last.parsed.plan["sort"]
                    = IF last.parsed.plan["limit"].is_none THEN OracleSort ELSE S_desc
              /\ last_num_starts(lower(last.user_query)) # {} =>
                    last.parsed.plan["limit"]
                        = IntVal(int_of(last_num_group(lower(last.user_query))))
              /\ ( /\ last_num_starts(lower(last.user_query)) = {}
                   /\ str_contains(lower(last.user_query), <<"l","a","s","t"," ","i","n","t","e","r","a","c","t","i","o","n">>) ) =>
                    last.parsed.plan["limit"] = IntVal(1)

\* "last interaction or last 2" with an oracle that gave only sort asc: the
\* number wins over the bare phrase and the sort order becomes desc.
C17_Witness ==
    /\ PlanReturned
    /\ last.user_query = Q_both
    /\ OracleLimit.is_none
    /\ OracleSort = S_asc
    /\ last.parsed.plan["limit"] = IntVal(2)
    /\ last.parsed.plan["sort"] = S_desc

\* C18 as stated: whenever the oracle supplies no limit, the limit of the
\* returned plan is absent or an integer of at least 1, whatever the
\* request text.
C18_Original ==
    (PlanReturned /\ OracleLimit.is_none) =>
        \/ last.parsed.plan["limit"].is_none
        \/ last.parsed.plan["limit"].val >= 1

\* ------------------------------------------------------------------------
\* Properties of handle_interaction_query
\* ------------------------------------------------------------------------

\* handle_interaction_query ran on a plan that names a contact.
NamedQuery ==
    /\ last.op = "handle_interaction_query"
    /\ ~last.escaped
    /\ Truthy(last.plan["contact_name"])

\* The stored contacts the plan's name matches.
NamedContacts == select_contacts_ilike(last.pre_contacts, last.plan["contact_name"])

\* The handler read the interactions table.
InteractionsQueried ==
    \E i \in 1..Len(last.calls) : last.calls[i].table = "interactions"

\* C19: when the plan's contact name matches no stored contact, the reply
\* says that no contacts were found and the interactions table is not
\* queried; when it matches some, every interaction returned belongs to one
\* of the matching contacts.
C19_NameMissFailsQuery ==
    NamedQuery =>
        /\ NamedContacts = <<>> =>
              /\ last.reply.kind = "no_contacts_found"
              /\ last.reply.list = <<last.plan["contact_name"]>>
              /\ ~InteractionsQueried
        /\ NamedContacts # <<>> =>
              /\ last.reply.kind # "no_contacts_found"
              /\ \A i \in 1..Len(last.reply.list) :
                    last.reply.list[i].contact_id \in uuids_of(NamedContacts)

\* A plan naming Xander, whom no stored contact matches, while interactions
\* of other contacts are stored: the reply is the failure and the
\* interactions table was not read.
C19_Witness ==
    /\ NamedQuery
    /\ last.plan["contact_name"] = F_xander
    /\ NamedContacts = <<>>
    /\ interactions # <<>>
    /\ last.reply.kind = "no_contacts_found"
    /\ ~InteractionsQueried

\* ------------------------------------------------------------------------
\* End-to-end scenario D
\* ------------------------------------------------------------------------

\* A turn of receive_sms on the message of scenario D.
ScenarioDTurn == SmsTurnDone /\ last.message = strip(B_scenario_d)

\* The plan scenario D expects.
ScenarioDPlan(plan) ==
    /\ plan["limit"] = IntVal(3)
    /\ plan["sort"] = S_desc
    /\ plan["contact_name"] = F_xander

\* C20 as stated: "Show me the last 3 times I spoke with Xander" is handled
\* as an interaction query whose plan is limit 3, sort desc, contact name
\* Xander; with no stored contact matching Xander the reply says that no
\* contact matches, and neither an interaction query nor a write is made.
C20_Original ==
    ScenarioDTurn =>
        /\ last.branch = "query"
        /\ last.handler = "handle_interaction_query"
        /\ ScenarioDPlan(last.plan)
        /\ select_contacts_ilike(contacts, F_xander) = <<>> =>
              /\ last.reply.kind = "no_contacts_found"
              /\ ~InteractionsQueried
              /\ Mutations = <<>>

\* ------------------------------------------------------------------------
\* End-to-end scenario B and the turn boundary
\* ------------------------------------------------------------------------

\* A confirmation token sent by a sender with no open conversation state.
StrayConfirmation ==
    /\ PlainTurn
    /\ is_affirmative(last.message)
    /\ ~PreHasEntry

\* C21 as stated: "yes" from a sender with no open conversation state is
\* answered with a reply saying that there is nothing to confirm, makes no
\* store call, and creates no conversation state for the sender.
C21_Original ==
    StrayConfirmation =>
        /\ last.reply.kind = "nothing_to_confirm"
        /\ last.calls = <<>>
        /\ last.sender \notin DOMAIN contact_storage

\* C22 as stated: every turn of receive_sms ends with a reply and without
\* an exception leaving the handler, in every branch, whichever oracle or
\* store call fails or returns malformed data.
C22_Original ==
    SmsTurnDone =>
        /\ ~last.escaped
        /\ last.reply.kind # "none"

\* ------------------------------------------------------------------------
\* The frame of a contact update
\* ------------------------------------------------------------------------

\* An update that was issued and succeeded.
UpdateDone ==
    /\ ChangeByName
    /\ last.text = <<"u","p","d","a","t","e">>
    /\ Mutations # <<>>
    /\ ~last.escaped

\* The row with this identifier.
RowOf(table, id) == SelectSeq(table, LAMBDA row : row["uuid"] = id)[1]

\* The fields the update was asked to change: those given a value, the name
\* aside, which located the contact.
FieldsToChange == DOMAIN Mutations[1].data \ {"name"}

\* C23 as stated: an update changes only the fields it was asked to change;
\* every other stored field of the matched contact, its name included, has
\* the value it had before.
C23_Original ==
    UpdateDone =>
        \A k \in DOMAIN RowOf(last.pre_contacts, Mutations[1].id) \ FieldsToChange :
            /\ k \in DOMAIN RowOf(contacts, Mutations[1].id)
            /\ RowOf(contacts, Mutations[1].id)[k]
                  = RowOf(last.pre_contacts, Mutations[1].id)[k]

\* ------------------------------------------------------------------------
\* The conversation while a contact awaits confirmation and after it ends
\* ------------------------------------------------------------------------

\* A message that is neither "yes"/"y" nor "no"/"n", sent by a sender whose
\* contact awaits confirmation.
SupplementaryTurn ==
    /\ PreAwaitingConfirmation
    /\ ~is_affirmative(last.message)
    /\ ~is_negative(last.message)

\* C24 as stated: such a message is run through the extractor and merged
\* into the pending record, the sender stays in awaiting_confirmation with
\* every populated field intact, and no other path handles the message.
C24_Original ==
    SupplementaryTurn =>
        /\ last.branch = "contact"
        /\ last.handler = "parse_message"
        /\ PostHasEntry
        /\ contact_storage[last.sender].state = "awaiting_confirmation"
        /\ \A f \in Range(ContactFields) :
              Truthy(dict_get(PreRecord, f)) =>
                  dict_get(contact_storage[last.sender].contact_data, f) = PreRecord[f]

\* The turn committed or cancelled the sender's flow.
FlowEnded == SmsTurnDone /\ last.handler \in {"insert_contact", "cancel"}

\* The records a contact-path message yields when it starts from an empty
\* record: what the extraction alone carries.
FreshRecords ==
    { parse_message(a, EmptyDict).contact_data :
        a \in {x \in ExtractorAnswers : ~parse_message(x, EmptyDict).raised} }

\* What the turn after the end of a flow may do.
AfterFlowEnded ==
    /\ last.sender \notin DOMAIN contact_storage
    /\ (last'.op = "receive_sms" /\ last'.sender = last.sender) =>
          /\ last'.handler # "insert_contact"
          /\ (last'.branch = "contact" /\ last'.reply.kind # "sorry_error") =>
                /\ last'.pre_contact_storage = contact_storage
                /\ contact_storage'[last.sender].contact_data \in FreshRecords

\* C25: after a commit or a cancel the sender has no conversation state;
\* the sender's next message issues no insert_contact call, and when it
\* takes the contact path the record it leaves is the one its own
\* extraction gives starting from the empty record.
C25_FlowEndsClean == [][FlowEnded => AfterFlowEnded]_vars

\* "yes" repeated right after a commit: the second "yes" found no state,
\* inserted nothing and was answered by the extractor path.
C25_Witness ==
    /\ StrayConfirmation
    /\ last.sender \in DOMAIN last.pre_classification_storage
    /\ is_affirmative(last.pre_classification_storage[last.sender].original_message)
    /\ Len(contacts) > Len(InitialContacts)
    /\ last.handler = "parse_message"
    /\ InsertContactCalls = <<>>

\* ------------------------------------------------------------------------
\* The binary classifier
\* ------------------------------------------------------------------------

\* C26 as stated: for a message without an interaction cue phrase, when
\* the classifier oracle answers the JSON object with label "query",
\* classify_for_query returns true and the message goes to the
\* interaction-query handler.
C26_Original ==
    (PlainTurn /\ ~HasCuePhrase(last.message) /\ last.oracle = "query") =>
        /\ last.branch = "query"
        /\ last.handler = "handle_interaction_query"

\* ------------------------------------------------------------------------
\* The few-shot history
\* ------------------------------------------------------------------------

ExamplesRead == last.op = "get_classification_examples"

\* The audit records in which the user corrected the label, newest first.
CorrectedNewestFirst ==
    Reverse(SelectSeq(classification_outcomes,
                      LAMBDA row : row["original_label"] # row["correct_label"]))

\* C27 as stated: get_classification_examples(limit) returns at most limit
\* audit records, newest first, none of which has a corrected label equal
\* to its original label, whatever the audit table holds.
C27_Original ==
    ExamplesRead =>
        /\ Len(last.examples) <= last.limit
        /\ \A i \in 1..Len(last.examples) :
              last.examples[i]["original_label"] # last.examples[i]["correct_label"]
        /\ last.store_ok => last.examples = FirstN(CorrectedNewestFirst, last.limit)

\* ------------------------------------------------------------------------
\* Concurrent invocations of handle_interaction
\* ------------------------------------------------------------------------

ContactIds == {contacts[j]["uuid"] : j \in 1..Len(contacts)}

\* Contacts created by handle_interaction: every row after the initial ones.
AutoCreated == {j \in 1..Len(contacts) : j > Len(InitialContacts)}

\* C28: under concurrent invocations of handle_interaction, every stored
\* interaction references a stored contact, and so does every invocation
\* that has resolved its contact and is about to insert its interaction.
C28_InteractionReferencesContact ==
    /\ \A i \in 1..Len(interactions) : interactions[i]["contact_id"] \in ContactIds
    /\ \A p \in DOMAIN inflight :
          inflight[p].pc = "resolved" => inflight[p].contact_id \in ContactIds

\* Two invocations for the same unmatched name both observed no match, both
\* created a contact and both logged their interaction.
C28_Witness ==
    \E p, q \in DOMAIN inflight :
        /\ p # q
        /\ inflight[p].pc = "done" /\ inflight[q].pc = "done"
        /\ inflight[p].created /\ inflight[q].created
        /\ inflight[p].existing = <<>> /\ inflight[q].existing = <<>>
        /\ inflight[p].contact_name = inflight[q].contact_name
        /\ inflight[p].contact_id # inflight[q].contact_id
        /\ \E i, j \in AutoCreated :
              /\ i # j
              /\ contacts[i]["name"] = contacts[j]["name"]
              /\ contacts[i]["uuid"] = inflight[p].contact_id
              /\ contacts[j]["uuid"] = inflight[q].contact_id
        /\ \E i, j \in 1..Len(interactions) :
              /\ interactions[i]["contact_id"] = inflight[p].contact_id
              /\ interactions[j]["contact_id"] = inflight[q].contact_id

\* ------------------------------------------------------------------------
\* Concurrent requests of one sender
\* ------------------------------------------------------------------------

\* The requests that wrote the sender's pending record back.
Written == {p \in DOMAIN inflight : inflight[p].pc = "done" /\ inflight[p].order > 0}

WrittenBefore(q) == {p \in Written : inflight[p].order < inflight[q].order}

LatestBefore(q) ==
    CHOOSE p \in WrittenBefore(q) :
        \A r \in WrittenBefore(q) : inflight[r].order <= inflight[p].order

LatestWritten ==
    CHOOSE p \in Written : \A r \in Written : inflight[r].order <= inflight[p].order

FieldsOf(record) == {k \in DOMAIN record : Truthy(record[k])}

\* C29: of two requests of one sender, the later one read the entry the
\* earlier one wrote, so its record keeps every field the earlier one had
\* merged, and the stored pending record is the one written last.
C29_NoLostUpdate ==
    /\ \A q \in Written :
          WrittenBefore(q) # {} =>
              /\ inflight[q].state_entry =
                     [contact_data |-> inflight[LatestBefore(q)].parse_result.contact_data,
                      state |-> new_state(inflight[LatestBefore(q)].parse_result)]
              /\ \A p \in WrittenBefore(q) :
                    \A k \in FieldsOf(inflight[p].parse_result.contact_data) :
                        /\ k \in DOMAIN inflight[q].parse_result.contact_data
                        /\ inflight[q].parse_result.contact_data[k] =
                               inflight[p].parse_result.contact_data[k]
    /\ Written # {} =>
          \E sender \in Senders :
              /\ sender \in DOMAIN contact_storage
              /\ contact_storage[sender].contact_data =
                     inflight[LatestWritten].parse_result.contact_data

\* Two requests of one sender have both written, each merged a field the
\* other did not carry, and the pending record holds both.
C29_Witness ==
    \E p, q \in Written, sender \in Senders :
        /\ inflight[p].order < inflight[q].order
        /\ inflight[p].sender = sender /\ inflight[q].sender = sender
        /\ "name" \in FieldsOf(inflight[p].parse_result.contact_data)
        /\ "phone" \notin FieldsOf(inflight[p].parse_result.contact_data)
        /\ inflight[q].state_entry.contact_data = inflight[p].parse_result.contact_data
        /\ {"name", "phone"} \subseteq FieldsOf(contact_storage[sender].contact_data)

\* ------------------------------------------------------------------------
\* Frame of a turn: the sender's contact conversation and the other senders
\* ------------------------------------------------------------------------

\* The entry of a sender in a per-sender dict, or the empty dict.
EntryOf(storage, sender) == IF sender \in DOMAIN storage THEN storage[sender] ELSE EmptyDict

SameEntry(before, after, sender) ==
    /\ (sender \in DOMAIN before) = (sender \in DOMAIN after)
    /\ EntryOf(before, sender) = EntryOf(after, sender)

OtherSenders == TwoSenders \ {last.sender}

\* C30: a turn labelled interaction or query leaves contact_storage as it
\* was, and a turn of one sender leaves every other sender's entry in
\* contact_storage and in classification_storage as it was.
C30_TurnFrame ==
    SmsTurnDone =>
        /\ last.branch \in {"interaction", "query"} =>
               contact_storage = last.pre_contact_storage
        /\ \A other \in OtherSenders :
               /\ SameEntry(last.pre_contact_storage, contact_storage, other)
               /\ SameEntry(last.pre_classification_storage, classification_storage, other)

\* One sender's message was labelled interaction while both senders had a
\* contact conversation open and the other had a remembered classification.
C30_Witness ==
    /\ SmsTurnDone
    /\ last.branch = "interaction"
    /\ last.sender \in DOMAIN contact_storage
    /\ \E other \in OtherSenders :
          /\ other \in DOMAIN contact_storage
          /\ contact_storage[other].state = "awaiting_fields"
          /\ "name" \in DOMAIN contact_storage[other].contact_data
          /\ other \in DOMAIN classification_storage
          /\ classification_storage[other]["original_label"] = L_contact

====
